---- MODULE Spec2Model ----
(***************************************************************************)
(* Model of the generic table CRUD handlers of the AgroGo cloud backend:   *)
(* handleAddTableEntry, handleGetTableEntries, handleEditTableEntry,       *)
(* handleEditTableEntries, handleDeleteUserDataByTable and the PUT         *)
(* validation helpers, run against a D1 (SQLite) store; of the routes of   *)
(* the Hono app with its authorization middleware (SpecApp:                *)
(* handleReturnUserDataByTable, handlePiSensorDataPosting); of             *)
(* handleDetermineUserDeviceHealth (SpecHealth); of handleLogin and        *)
(* handleRaspiPairing (SpecLogin); of the cron job distributeUnsentEmails  *)
(* (SpecEmail, SpecEmailFair); of the POST /api/data routes (SpecPost);    *)
(* and of an update overlapping a delete (SpecEditDelete).                 *)
(*                                                                         *)
(* Every handler is an async function; each `await` of a store statement   *)
(* is a point where other requests may run.  A request therefore advances  *)
(* in steps: the code up to and including one store statement is one step. *)
(***************************************************************************)
EXTENDS Integers, Sequences, FiniteSets, TLC

\* ------------------------------------------------------------------------
\* Values
\* ------------------------------------------------------------------------

\* JavaScript `undefined`: the key is absent from the object
Undefined == "undefined"
\* JavaScript / SQL null
Null == "null"

\* a truthiness test that lets null through
FalsyUndefinedOnly(v) == v = Undefined

\* `!pkValue`: undefined, null and the empty string are falsy
Falsy(v) == v \in {Undefined, Null, ""}

\* ------------------------------------------------------------------------
\* Bounds
\* ------------------------------------------------------------------------

\* most rows a table holds in the model
MaxRows == 2
\* most entries in one handleEditTableEntries batch
MaxBatch == 2
\* most readings in one body sent to api/raspi/sensorReadings
MaxReadings == 2
\* most mails sent before the trigger stops starting faulty runs
MaxMails == 2

\* identifiers: Firebase uids / crypto.randomUUID() results
Ids == {"u1", "u2"}
\* sensor identifiers referenced by pings rows
SensorIds == {"s1"}
\* text values of the data columns
Names == {"A", "B"}
\* values CURRENT_TIMESTAMP can yield
Timestamps == {"t1"}
\* request slots (concurrent HTTP requests)
Reqs == {1, 2}

\* ------------------------------------------------------------------------
\* schema.ts: table descriptors
\* ------------------------------------------------------------------------

\* tables of the schema that the model instantiates: `user` declares a
\* primary key, `pings` declares none
Tables == {"user", "pings"}

\* tables the app's user and Raspberry Pi routes work on
AppTables == {"user", "sensors", "pings", "rasPi"}

\* (table as any).userId: the table object has a userId column; user is
\* keyed by id and rasPi has no user column
HasUserId(t) == t \in {"sensors", "pings"}

\* columns of each table (property names of the drizzle table object);
\* user.location and user.raspiMac are nullable text columns exactly like
\* firstName/lastName and are left out of the bounded instance
Columns(t) ==
    IF t = "user"
    THEN {"id", "createdAt", "email", "firstName", "lastName"}
    ELSE {"userId", "sensorId", "confirmed", "time", "value"}

\* .primaryKey(): the column the store keeps unique (none for pings)
PrimaryKeyOf(t) == IF t = "user" THEN {"id"} ELSE {}

\* .notNull() columns (a primary key is NOT NULL in the migrations)
NotNullColumns(t) ==
    IF t = "user" THEN {"id", "createdAt", "email"} ELSE {"confirmed", "time"}

\* $defaultFn(() => crypto.randomUUID())
UuidColumns(t) == IF t = "user" THEN {"id"} ELSE {}

\* .default(sql`CURRENT_TIMESTAMP`)
TimestampColumns(t) == IF t = "user" THEN {"createdAt"} ELSE {"time"}

\* ------------------------------------------------------------------------
\* The D1 store: statements
\* ------------------------------------------------------------------------

RECURSIVE SelectSeq2(_, _, _)
\* rows of s whose column col equals val, in store order
SelectSeq2(s, col, val) ==
    IF s = <<>> THEN <<>>
    ELSE IF Head(s)[col] = val
         THEN <<Head(s)>> \o SelectSeq2(Tail(s), col, val)
         ELSE SelectSeq2(Tail(s), col, val)

\* db.select().from(table).where(eq(column, value)).all()
SelectWhereEq(rows, col, val) == SelectSeq2(rows, col, val)

\* .set(entry) on one row: every defined field of the entry overwrites the
\* column, the other columns keep their value
Overwrite(row, entry) ==
    [c \in DOMAIN row |-> IF entry[c] # Undefined THEN entry[c] ELSE row[c]]

\* db.update(table).set(entry).where(eq(column, value)).run(): the rows
\* after the statement
UpdateWhereEq(rows, col, val, entry) ==
    [i \in 1..Len(rows) |->
        IF rows[i][col] = val THEN Overwrite(rows[i], entry) ELSE rows[i]]

RECURSIVE DeleteSeq(_, _, _)
DeleteSeq(s, col, val) ==
    IF s = <<>> THEN <<>>
    ELSE IF Head(s)[col] = val
         THEN DeleteSeq(Tail(s), col, val)
         ELSE <<Head(s)>> \o DeleteSeq(Tail(s), col, val)

\* db.delete(table).where(eq(column, value)).run(): the rows after it
DeleteWhereEq(rows, col, val) == DeleteSeq(rows, col, val)

\* the row an INSERT stores for an entry: a column the entry leaves
\* undefined takes its default (a fresh uuid, the current timestamp) or NULL
Materialize(t, entry, uuid, ts) ==
    [c \in Columns(t) |->
        IF entry[c] # Undefined THEN entry[c]
        ELSE IF c \in UuidColumns(t) THEN uuid
        ELSE IF c \in TimestampColumns(t) THEN ts
        ELSE Null]

\* the INSERT violates a NOT NULL or a PRIMARY KEY constraint and throws
InsertViolates(t, rows, row) ==
    \/ \E c \in NotNullColumns(t) : row[c] = Null
    \/ \E c \in PrimaryKeyOf(t) : \E i \in 1..Len(rows) : rows[i][c] = row[c]

\* the rows of the table satisfy the constraints the store enforces
TableOk(t, rows) ==
    /\ \A i \in 1..Len(rows) : \A c \in NotNullColumns(t) : rows[i][c] # Null
    /\ \A i, j \in 1..Len(rows) :
          \A c \in PrimaryKeyOf(t) : rows[i][c] = rows[j][c] => i = j

\* ------------------------------------------------------------------------
\* utilities/databaseQueries.ts
\* ------------------------------------------------------------------------

\* db.insert(table).values(entry).returning(); insertedRows[0]
insertTableEntry(t, entry, uuid, ts) == Materialize(t, entry, uuid, ts)

\* the keys of a condition object: its defined fields
ConditionKeys(condition) == {c \in DOMAIN condition : condition[c] # Undefined}

\* a where clause that is dropped
WhereClauseDropped(row, condition) == TRUE

\* the clauses joined by or
WhereClauseAny(row, condition) ==
    \E c \in ConditionKeys(condition) : row[c] = condition[c]

\* and(...clauses) of eq(table[key], value) over the condition's keys; with
\* no key the where clause stays undefined and every row passes
WhereClause(row, condition) ==
    \A c \in ConditionKeys(condition) : row[c] = condition[c]

RECURSIVE FilterRows(_, _)
FilterRows(s, condition) ==
    IF s = <<>> THEN <<>>
    ELSE IF WhereClause(Head(s), condition)
         THEN <<Head(s)>> \o FilterRows(Tail(s), condition)
         ELSE FilterRows(Tail(s), condition)

\* a select without its limit
LimitDropped(s, amount) == s

\* .limit(amount): the first rows of the result
Limit(s, amount) ==
    IF amount >= Len(s) THEN s ELSE SubSeq(s, 1, amount)

\* db.select().from(table).where(whereClause).limit(amount), rows in store
\* order (the tempAndHumidity ordering applies to a table not instantiated)
returnTableEntries(rows, condition, amount) ==
    Limit(FilterRows(rows, condition), amount)

\* ------------------------------------------------------------------------
\* Request inputs
\* ------------------------------------------------------------------------

\* entries a request body can carry for the user table
UserEntries ==
    [id : {Undefined, Null} \cup Ids, createdAt : {Undefined},
     email : {Undefined, "e1"}, firstName : {Undefined} \cup Names,
     lastName : {Undefined, "B"}]

\* entries a request body can carry for the pings table
PingsEntries ==
    [userId : {Undefined}, sensorId : {Undefined} \cup SensorIds,
     confirmed : {Undefined, "yes"}, time : {Undefined},
     value : {Undefined, "A"}]

Entries(t) == IF t = "user" THEN UserEntries ELSE PingsEntries

\* the entry with no field at all
EmptyEntry(t) == [c \in Columns(t) |-> Undefined]

\* the `primaryKey` argument the PATCH route of a table passes: the declared
\* primary key, and for pings (which declares none) the sensor reference
KeyColumn(t) == IF t = "user" THEN "id" ELSE "sensorId"

\* entries of PATCH bodies (partial updates by key) of concurrent requests
ConcurrentEditEntries(t) ==
    {e \in Entries(t) :
        IF t = "user" THEN e.email = Undefined /\ e.id # Null
                      ELSE e.confirmed = Undefined}

\* entries of PATCH bodies (partial updates by key)
EditEntries(t) ==
    {e \in Entries(t) :
        IF t = "user" THEN e.email = Undefined /\ e.firstName # "B"
                      ELSE e.confirmed = Undefined}

\* entries of a handleEditTableEntries batch
BatchEntries(t) ==
    {e \in EditEntries(t) :
        IF t = "user" THEN e.lastName = Undefined /\ e.firstName = "A"
                      ELSE e.value # Undefined}

\* batches of at most MaxBatch entries
Batches(t) == UNION {[1..n -> BatchEntries(t)] : n \in 1..MaxBatch}

\* ------------------------------------------------------------------------
\* State
\* ------------------------------------------------------------------------

VARIABLES
    \* store[t]: the rows of table t of the D1 database, in store order
    store,
    \* req[r]: the request running in slot r: its handler, the handler's
    \* arguments and locals, the await it is suspended at, its response,
    \* and how many statements it has issued so far
    req

vars == <<store, req>>

\* a response not yet written
NoResp == [status |-> 0]

\* a slot with no request
Idle ==
    [pc |-> "idle", handler |-> "none", table |-> "none",
     primaryKey |-> "none", entries |-> <<>>, i |-> 0, found |-> <<>>,
     validCount |-> 0, invalidEntries |-> <<>>, call |-> <<>>,
     method |-> "none", path |-> <<>>, authorization |-> <<>>,
     userId |-> Undefined, now |-> 0, resp |-> NoResp, reads |-> 0,
     writes |-> 0]

Init ==
    /\ store = [t \in Tables |-> <<>>]
    /\ req = [r \in Reqs |-> Idle]

\* messages of the errors a rejected store statement throws
ErrorTexts == {"D1_ERROR: no such column", "D1_ERROR: database is locked"}

\* any awaited store statement may reject with one of the errors
StatementOutcomes == {"ok"} \cup ErrorTexts

\* the catch blocks: the response each handler builds from the error caught
CatchResponse(handler, error) ==
    [status |-> 500,
     error |->
        CASE handler = "handleEditTableEntry"
                -> <<"Failed to retrieve entry: ", error>>
          [] handler \in {"handleDeleteUserDataByTable",
                          "handleReturnUserDataByTable",
                          "handlePiSensorDataPosting",
                          "handleDetermineUserDeviceHealth",
                          "handleRaspiPairing"} -> error
          [] handler \in {"handleAddTableEntry", "handleAddTableEntry<T>"}
                -> "Failed to insert entry."
          [] OTHER -> "Failed to retrieve entry"]

\* ------------------------------------------------------------------------
\* handleEditTableEntry (PATCH of one entry)
\* ------------------------------------------------------------------------

\* a match check without its zero-rows branch
MatchOutcomeNoZero(found) ==
    IF Len(found) > 1 THEN "ambiguous match" ELSE "one match"

\* a match check without its several-rows branch
MatchOutcomeNoAmbiguous(found) ==
    IF Len(found) = 0 THEN "no match" ELSE "one match"

\* the object handed to .set(): a read-modify-write of the row looked up
SetClauseStale(entry, found) == Overwrite(found[1], entry)

\* the object handed to .set(): the entry as received
SetClause(entry, found) == entry

\* what the handler makes of the lookup's result
MatchOutcome(found) ==
    IF Len(found) = 0 THEN "no match"
    ELSE IF Len(found) > 1 THEN "ambiguous match"
    ELSE "one match"

\* lines 184-193: the arguments are bound and the primary key is checked
EditStart(r, h, t, entry) ==
    /\ req[r].pc = "idle"
    /\ LET pkValue == entry[KeyColumn(t)]
           q == [Idle EXCEPT !.handler = h, !.table = t,
                             !.primaryKey = KeyColumn(t),
                             !.entries = <<entry>>, !.i = 1]
       IN req' = [req EXCEPT ![r] =
                IF Falsy(pkValue)
                THEN [q EXCEPT !.pc = "done",
                        !.resp = [status |-> 400, entry |-> entry,
                                  reason |-> "missing primary key"]]
                ELSE [q EXCEPT !.pc = "select"]]
    /\ UNCHANGED store

handleEditTableEntry_Start(r) ==
    \E t \in Tables : \E entry \in EditEntries(t) :
        EditStart(r, "handleEditTableEntry", t, entry)

\* lines 195-199: the lookup on the primary key
handleEditTableEntry_Select(r) ==
    /\ req[r].pc = "select"
    /\ req[r].handler = "handleEditTableEntry"
    /\ LET q == req[r]
           entry == q.entries[1]
           pkValue == entry[q.primaryKey]
       IN \E outcome \in StatementOutcomes :
            req' = [req EXCEPT ![r] =
                IF outcome # "ok"
                THEN [q EXCEPT !.pc = "done", !.reads = @ + 1,
                        !.resp = CatchResponse(q.handler, outcome)]
                ELSE [q EXCEPT !.pc = "update", !.reads = @ + 1,
                        !.found = SelectWhereEq(store[q.table],
                                                q.primaryKey, pkValue)]]
    /\ UNCHANGED store

\* lines 201-221: the match check, the UPDATE and the response
handleEditTableEntry_Update(r) ==
    /\ req[r].pc = "update"
    /\ req[r].handler = "handleEditTableEntry"
    /\ LET q == req[r]
           entry == q.entries[1]
           pkValue == entry[q.primaryKey]
           m == MatchOutcome(q.found)
       IN IF m = "no match"
          THEN /\ req' = [req EXCEPT ![r] = [q EXCEPT !.pc = "done",
                            !.resp = [status |-> 400, entry |-> entry,
                                      reason |-> "no match"]]]
               /\ UNCHANGED store
          ELSE IF m = "ambiguous match"
          THEN /\ req' = [req EXCEPT ![r] = [q EXCEPT !.pc = "done",
                            !.resp = [status |-> 400, entry |-> entry,
                                      reason |-> ">1 match, ambiguous"]]]
               /\ UNCHANGED store
          ELSE \E outcome \in StatementOutcomes :
                IF outcome # "ok"
                THEN /\ req' = [req EXCEPT ![r] = [q EXCEPT !.pc = "done",
                                  !.writes = @ + 1,
                                  !.resp = CatchResponse(q.handler, outcome)]]
                     /\ UNCHANGED store
                ELSE /\ store' = [store EXCEPT ![q.table] =
                            UpdateWhereEq(@, q.primaryKey, pkValue,
                                          SetClause(entry, q.found))]
                     /\ req' = [req EXCEPT ![r] = [q EXCEPT !.pc = "done",
                                  !.writes = @ + 1,
                                  !.resp = [status |-> 200, success |-> TRUE,
                                            data |-> entry]]]

\* the response has been sent: the slot is free again
Respond(r) ==
    /\ req[r].pc = "done"
    /\ req' = [req EXCEPT ![r] = Idle]
    /\ UNCHANGED store

\* ------------------------------------------------------------------------
\* handleEditTableEntries (PATCH of a batch)
\* ------------------------------------------------------------------------

\* a loop that ends at the first entry without primary key
SkipMissingKeysBreak(entries, i, primaryKey, invalidEntries) ==
    IF i > Len(entries) THEN [i |-> i, invalidEntries |-> invalidEntries]
    ELSE IF Falsy(entries[i][primaryKey])
         THEN [i |-> Len(entries) + 1,
               invalidEntries |->
                   Append(invalidEntries,
                          [entry |-> entries[i],
                           reason |-> "missing primary key"])]
         ELSE [i |-> i, invalidEntries |-> invalidEntries]

RECURSIVE SkipMissingKeys(_, _, _, _)
\* lines 24-31: the loop runs without awaiting over the entries that carry
\* no primary key, pushing each to invalidEntries; the result is the index
\* of the first entry that needs a lookup (or Len + 1) and the list
SkipMissingKeys(entries, i, primaryKey, invalidEntries) ==
    IF i > Len(entries) THEN [i |-> i, invalidEntries |-> invalidEntries]
    ELSE IF Falsy(entries[i][primaryKey])
         THEN SkipMissingKeys(entries, i + 1, primaryKey,
                 Append(invalidEntries,
                        [entry |-> entries[i],
                         reason |-> "missing primary key"]))
         ELSE [i |-> i, invalidEntries |-> invalidEntries]

\* a tally that counts the invalid entries among the valid ones as well
BatchResponseCountsAll(validCount, invalidEntries) ==
    [status |-> 200, success |-> TRUE,
     validCount |-> validCount + Len(invalidEntries),
     invalidCount |-> Len(invalidEntries), invalidEntries |-> invalidEntries]

\* lines 56-61: the tally returned once the loop is over
BatchResponse(validCount, invalidEntries) ==
    [status |-> 200, success |-> TRUE, validCount |-> validCount,
     invalidCount |-> Len(invalidEntries), invalidEntries |-> invalidEntries]

\* the request after entry q.i has been dealt with: the loop goes on to the
\* next entry that needs a lookup, or returns the tally
BatchContinue(q, validCount, invalidEntries) ==
    LET nxt == SkipMissingKeys(q.entries, q.i + 1, q.primaryKey,
                               invalidEntries)
    IN IF nxt.i > Len(q.entries)
       THEN [q EXCEPT !.pc = "done", !.i = nxt.i, !.validCount = validCount,
               !.invalidEntries = nxt.invalidEntries,
               !.resp = BatchResponse(validCount, nxt.invalidEntries)]
       ELSE [q EXCEPT !.pc = "select", !.i = nxt.i,
               !.validCount = validCount,
               !.invalidEntries = nxt.invalidEntries]

\* lines 15-31: the batch is bound and the loop starts
BatchStart(r, t, entries) ==
    /\ req[r].pc = "idle"
    /\ LET q == [Idle EXCEPT !.handler = "handleEditTableEntries",
                             !.table = t, !.primaryKey = KeyColumn(t),
                             !.entries = entries, !.i = 0]
       IN req' = [req EXCEPT ![r] = BatchContinue(q, 0, <<>>)]
    /\ UNCHANGED store

handleEditTableEntries_Start(r) ==
    \E t \in Tables : \E entries \in Batches(t) : BatchStart(r, t, entries)

\* lines 33-37: the lookup for entry i
handleEditTableEntries_Select(r) ==
    /\ req[r].pc = "select"
    /\ req[r].handler = "handleEditTableEntries"
    /\ LET q == req[r]
           pkValue == q.entries[q.i][q.primaryKey]
       IN \E outcome \in StatementOutcomes :
            req' = [req EXCEPT ![r] =
                IF outcome # "ok"
                THEN [q EXCEPT !.pc = "done", !.reads = @ + 1,
                        !.resp = CatchResponse(q.handler, outcome)]
                ELSE [q EXCEPT !.pc = "update", !.reads = @ + 1,
                        !.found = SelectWhereEq(store[q.table],
                                                q.primaryKey, pkValue)]]
    /\ UNCHANGED store

\* lines 39-54: the match check and the UPDATE for entry i, then the loop
\* goes on (lines 56-65 when it was the last entry)
handleEditTableEntries_Update(r) ==
    /\ req[r].pc = "update"
    /\ req[r].handler = "handleEditTableEntries"
    /\ LET q == req[r]
           entry == q.entries[q.i]
           pkValue == entry[q.primaryKey]
           m == MatchOutcome(q.found)
       IN IF m # "one match"
          THEN /\ req' = [req EXCEPT ![r] =
                    BatchContinue(q, q.validCount,
                        Append(q.invalidEntries,
                               [entry |-> entry, reason |-> m]))]
               /\ UNCHANGED store
          ELSE \E outcome \in StatementOutcomes :
                IF outcome # "ok"
                THEN /\ req' = [req EXCEPT ![r] = [q EXCEPT !.pc = "done",
                                  !.writes = @ + 1,
                                  !.resp = CatchResponse(q.handler, outcome)]]
                     /\ UNCHANGED store
                ELSE /\ store' = [store EXCEPT ![q.table] =
                            UpdateWhereEq(@, q.primaryKey, pkValue,
                                          SetClause(entry, q.found))]
                     /\ req' = [req EXCEPT ![r] =
                            BatchContinue([q EXCEPT !.writes = @ + 1],
                                          q.validCount + 1, q.invalidEntries)]

\* ------------------------------------------------------------------------
\* handleDeleteUserDataByTable (DELETE by id)
\* ------------------------------------------------------------------------

\* tables whose drizzle object has an `id` column, which the handler reads
\* as table.id
TablesWithId == {t \in Tables : "id" \in Columns(t)}

\* lines 83-89: the body is parsed and the id is checked
handleDeleteUserDataByTable_Start(r) ==
    /\ req[r].pc = "idle"
    /\ \E t \in TablesWithId : \E id \in {Undefined, Null} \cup Ids :
        LET q == [Idle EXCEPT !.handler = "handleDeleteUserDataByTable",
                              !.table = t, !.primaryKey = "id",
                              !.entries = <<[EmptyEntry(t) EXCEPT !.id = id]>>,
                              !.i = 1]
        IN req' = [req EXCEPT ![r] =
                IF Falsy(id)
                THEN [q EXCEPT !.pc = "done",
                        !.resp = [status |-> 400,
                                  error |-> "id isn't passed in the request"]]
                ELSE [q EXCEPT !.pc = "select"]]
    /\ UNCHANGED store

\* lines 91-95: the lookup on the id
handleDeleteUserDataByTable_Select(r) ==
    /\ req[r].pc = "select"
    /\ req[r].handler = "handleDeleteUserDataByTable"
    /\ LET q == req[r]
           id == q.entries[1].id
       IN \E outcome \in StatementOutcomes :
            req' = [req EXCEPT ![r] =
                IF outcome # "ok"
                THEN [q EXCEPT !.pc = "done", !.reads = @ + 1,
                        !.resp = CatchResponse(q.handler, outcome)]
                ELSE [q EXCEPT !.pc = "delete", !.reads = @ + 1,
                        !.found = SelectWhereEq(store[q.table], "id", id)]]
    /\ UNCHANGED store

\* a record check without its no-record branch
RecordsOkNoZero(records) == ~(Len(records) > 1)

\* how many records the lookup must have found for the DELETE to run
RecordsOk(records) == ~(Len(records) < 1) /\ ~(Len(records) > 1)

\* lines 97-110: the single-record check, the DELETE and the response
handleDeleteUserDataByTable_Delete(r) ==
    /\ req[r].pc = "delete"
    /\ req[r].handler = "handleDeleteUserDataByTable"
    /\ LET q == req[r]
           id == q.entries[1].id
       IN IF ~RecordsOk(q.found)
          THEN /\ req' = [req EXCEPT ![r] = [q EXCEPT !.pc = "done",
                    !.resp = [status |-> 400,
                              error |-> IF Len(q.found) < 1
                                        THEN "No records found with ID"
                                        ELSE "Multiple records found with ID"]]]
               /\ UNCHANGED store
          ELSE \E outcome \in StatementOutcomes :
                IF outcome # "ok"
                THEN /\ req' = [req EXCEPT ![r] = [q EXCEPT !.pc = "done",
                                  !.writes = @ + 1,
                                  !.resp = CatchResponse(q.handler, outcome)]]
                     /\ UNCHANGED store
                ELSE /\ store' = [store EXCEPT ![q.table] =
                            DeleteWhereEq(@, "id", id)]
                     /\ req' = [req EXCEPT ![r] = [q EXCEPT !.pc = "done",
                                  !.writes = @ + 1,
                                  !.resp = [status |-> 200, success |-> TRUE,
                                            record |-> "run result"]]]

\* ------------------------------------------------------------------------
\* handleAddTableEntry (POST /api/data/<table>), in its two revisions
\* ------------------------------------------------------------------------

\* the entry a POST route builds from the body: the user route passes
\* location, email, firstName and lastName; the pings route passes userId,
\* sensorId and confirmed
InsertEntries(t) ==
    {e \in Entries(t) :
        IF t = "user" THEN e.id = Undefined /\ e.firstName # "B"
                      ELSE e.value = Undefined /\ e.sensorId # Undefined}

\* `data` of the success response: addTableEntry.ts echoes the entry it was
\* given, the generic revision returns the row insertTableEntry returned
AddResponseData(h, entry, row) ==
    IF h = "handleAddTableEntry" THEN entry ELSE row

\* the handler body: one awaited INSERT, then the response
AddTableEntry(r, h) ==
    /\ req[r].pc = "idle"
    /\ \E t \in Tables : \E entry \in InsertEntries(t) :
       \E uuid \in Ids : \E ts \in Timestamps :
       \E outcome \in StatementOutcomes :
        LET rows == store[t]
            row == insertTableEntry(t, entry, uuid, ts)
            q == [Idle EXCEPT !.handler = h, !.table = t,
                              !.entries = <<entry>>, !.i = 1,
                              !.pc = "done", !.writes = 1]
        IN /\ Len(rows) < MaxRows
           \* crypto.randomUUID() does not repeat an identifier in use
           /\ \A i \in 1..Len(rows) : \A c \in UuidColumns(t) :
                  rows[i][c] # uuid
           /\ IF outcome # "ok" \/ InsertViolates(t, rows, row)
              THEN /\ req' = [req EXCEPT ![r] = [q EXCEPT
                            !.resp = CatchResponse(q.handler, outcome)]]
                   /\ UNCHANGED store
              ELSE /\ store' = [store EXCEPT ![t] = Append(@, row)]
                   /\ req' = [req EXCEPT ![r] = [q EXCEPT
                            !.found = <<row>>,
                            !.resp = [status |-> 200, success |-> TRUE,
                                      data |-> AddResponseData(h, entry, row)]]]

\* handlers/addTableEntry.ts
handleAddTableEntry(r) == AddTableEntry(r, "handleAddTableEntry")

\* the generic revision handleAddTableEntry<T extends SQLiteTable>
handleAddTableEntryGeneric(r) == AddTableEntry(r, "handleAddTableEntry<T>")

\* ------------------------------------------------------------------------
\* PUT: validateCompleteEntry, then the update by primary key
\* ------------------------------------------------------------------------

\* the required-field list the PUT route of a table declares
RequiredFields(t) ==
    IF t = "user" THEN {"email", "firstName", "lastName"}
    ELSE {"sensorId", "value"}

\* requiredFields.filter(f => entry[f] === undefined)
MissingFields(entry, requiredFields) ==
    {f \in requiredFields : entry[f] = Undefined}

\* the status validateCompleteEntry answers an incomplete entry with
IncompleteEntryStatus == 500

\* validateCompleteEntry: the error response for an incomplete entry, or
\* { valid: true }
validateCompleteEntry(entry, requiredFields) ==
    LET missing == MissingFields(entry, requiredFields)
    IN IF Cardinality(missing) > 0
       THEN [valid |-> FALSE,
             resp |-> [status |-> IncompleteEntryStatus, success |-> FALSE,
                       missingFields |-> missing, entry |-> entry]]
       ELSE [valid |-> TRUE, resp |-> NoResp]

\* validateCompleteEntries: the batch form, listing each incomplete entry
\* with its missing fields
validateCompleteEntries(entries, requiredFields) ==
    LET bad == {i \in 1..Len(entries) :
                   MissingFields(entries[i], requiredFields) # {}}
    IN [valid |-> bad = {},
        invalidEntries |->
            {[entry |-> entries[i],
              missing |-> MissingFields(entries[i], requiredFields)] :
             i \in bad}]

\* entries of PUT bodies
PutEntries(t) ==
    {e \in Entries(t) :
        IF t = "user" THEN e.id # Null /\ e.firstName # "B"
                      ELSE e.confirmed = Undefined}

\* the PUT route: the entry is validated against the required fields, and
\* only a complete entry is handed to handleEditTableEntry
PutRoute_Start(r) ==
    \E t \in Tables : \E entry \in PutEntries(t) :
        LET v == validateCompleteEntry(entry, RequiredFields(t))
        IN IF v.valid
           THEN EditStart(r, "handleEditTableEntry", t, entry)
           ELSE /\ req[r].pc = "idle"
                /\ req' = [req EXCEPT ![r] =
                        [Idle EXCEPT !.handler = "PUT", !.table = t,
                                     !.primaryKey = KeyColumn(t),
                                     !.entries = <<entry>>, !.i = 1,
                                     !.pc = "done", !.resp = v.resp]]
                /\ UNCHANGED store

\* ------------------------------------------------------------------------
\* GET api/data/:table and handleGetTableEntries
\* ------------------------------------------------------------------------

\* the limit used when the request carries none
DefaultLimit == 100

\* parseInt of the limit parameters the model sends
ParseInt(str) == IF str = "1" THEN 1 ELSE IF str = "2" THEN 2 ELSE 0

\* a query parameter name that is a column of no table
NoColumn == "colour"

\* names a request can put in the :table segment: the tables, an exported
\* enum value list (schema.sensorsTypeEnum) and a name schema.ts does not
\* export
RouteNames == Tables \cup {"sensorsTypeEnum", "unknownTable"}

\* (schema as Record<string, any>)[tableName]: what the schema module holds
\* under the name
SchemaExport(name) ==
    IF name \in Tables \cup AppTables THEN "table"
    ELSE IF name = "sensorsTypeEnum" THEN "array"
    ELSE Undefined

\* the query string as an object: no parameter, column filters, a limit,
\* a parameter that is no column
QueryParams(name) ==
    IF name = "user"
    THEN [id : {Undefined} \cup Ids, createdAt : {Undefined},
          email : {Undefined}, firstName : {Undefined, "A"},
          lastName : {Undefined}, limit : {Undefined, "1"},
          colour : {Undefined, "red"}]
    ELSE IF name = "pings"
    THEN [userId : {Undefined}, sensorId : {Undefined} \cup SensorIds,
          confirmed : {Undefined}, time : {Undefined},
          value : {Undefined, "A"}, limit : {Undefined, "1"},
          colour : {Undefined, "red"}]
    ELSE [limit : {Undefined, "1"}, colour : {Undefined}]

\* the parameters handed on as they came, limit included
ConditionWithLimit(queryParams) == queryParams

\* delete queryParams.limit, then every remaining parameter is copied into
\* the condition
ConditionOf(queryParams) ==
    [k \in DOMAIN queryParams |->
        IF k = "limit" THEN Undefined ELSE queryParams[k]]

\* the keys of the condition for which table[key] is undefined: eq() gets
\* no column and the statement cannot be built
UnknownKeys(name, condition) ==
    ConditionKeys(condition)
        \ (IF name \in Tables THEN Columns(name) ELSE {})

\* the handler body: the limit is taken out of the parameters, the rest is
\* the condition; one awaited SELECT, then the response.  The SELECT is
\* rejected before it reaches the store when `table` is no table object or
\* a condition key is no column of it.
handleGetTableEntries(r, name) ==
    \E queryParams \in QueryParams(name) :
    \E outcome \in StatementOutcomes :
        LET limit == IF ~Falsy(queryParams.limit)
                     THEN ParseInt(queryParams.limit)
                     ELSE DefaultLimit
            condition == ConditionOf(queryParams)
            built == /\ SchemaExport(name) = "table"
                     /\ UnknownKeys(name, condition) = {}
            q == [Idle EXCEPT !.handler = "handleGetTableEntries",
                              !.table = name, !.entries = <<queryParams>>,
                              !.call = <<[condition |-> condition,
                                          amount |-> limit]>>,
                              !.pc = "done",
                              !.reads = IF built THEN 1 ELSE 0]
        IN req' = [req EXCEPT ![r] =
            IF ~built \/ outcome # "ok"
            THEN [q EXCEPT !.resp = CatchResponse(q.handler, outcome)]
            ELSE [q EXCEPT !.resp = [status |-> 200, success |-> TRUE,
                        data |-> returnTableEntries(store[name], condition,
                                                    limit)]]]

\* app.get('api/data/:table'): the name is looked up in the schema module;
\* a name it does not hold is answered 404, any other value is handed to
\* handleGetTableEntries as the table
GetTableRoute(r) ==
    /\ req[r].pc = "idle"
    /\ \E tableName \in RouteNames :
          IF Falsy(SchemaExport(tableName))
          THEN req' = [req EXCEPT ![r] =
                  [Idle EXCEPT !.handler = "GET api/data/:table",
                               !.table = tableName, !.pc = "done",
                               !.resp = [status |-> 404,
                                   error |-> <<"Table ", tableName,
                                               " not found">>]]]
          ELSE handleGetTableEntries(r, tableName)
    /\ UNCHANGED store

\* ------------------------------------------------------------------------
\* Specifications
\* ------------------------------------------------------------------------

\* one step of the request in slot r
Step(r) ==
    \/ handleEditTableEntry_Start(r)
    \/ handleEditTableEntry_Select(r)
    \/ handleEditTableEntry_Update(r)
    \/ handleEditTableEntries_Start(r)
    \/ handleEditTableEntries_Select(r)
    \/ handleEditTableEntries_Update(r)
    \/ handleDeleteUserDataByTable_Start(r)
    \/ handleDeleteUserDataByTable_Select(r)
    \/ handleDeleteUserDataByTable_Delete(r)
    \/ handleAddTableEntry(r)
    \/ handleAddTableEntryGeneric(r)
    \/ PutRoute_Start(r)
    \/ GetTableRoute(r)
    \/ Respond(r)

\* requests served one at a time
Next == Step(1)

Spec == Init /\ [][Next]_vars

\* ------------------------------------------------------------------------
\* Two updates in flight at once
\* ------------------------------------------------------------------------

\* user rows the table holds when the two requests arrive
ConcurrentInitialRows ==
    [id : Ids, createdAt : Timestamps, email : {"e1"},
     firstName : {Null, "A"}, lastName : {Null}]

\* the user table when the two requests arrive: one or two rows with
\* distinct ids
ConcurrentInitialTables ==
    {<<a>> : a \in ConcurrentInitialRows}
    \cup {<<a, b>> : a, b \in ConcurrentInitialRows}

InitConcurrent ==
    /\ store \in [Tables -> ConcurrentInitialTables \cup {<<>>}]
    /\ store["pings"] = <<>>
    /\ store["user"] # <<>>
    /\ TableOk("user", store["user"])
    /\ req = [r \in Reqs |-> Idle]

\* the requests overlap in time: none arrives after the other was answered
NoneAnswered == \A o \in Reqs : req[o].pc # "done"

\* a PATCH of one entry arrives before the other request is answered
handleEditTableEntry_StartConcurrent(r) ==
    /\ NoneAnswered
    /\ \E entry \in {e \in ConcurrentEditEntries("user") : ~Falsy(e.id)} :
          EditStart(r, "handleEditTableEntry", "user", entry)

\* a PATCH of a batch arrives before the other request is answered
handleEditTableEntries_StartConcurrent(r) ==
    /\ NoneAnswered
    /\ \E entries \in {b \in Batches("user") :
                         \A i \in 1..Len(b) : ~Falsy(b[i].id)} :
          BatchStart(r, "user", entries)

\* one step of the request in slot r, the other slot's request suspended
StepConcurrent(r) ==
    \/ handleEditTableEntry_StartConcurrent(r)
    \/ handleEditTableEntry_Select(r)
    \/ handleEditTableEntry_Update(r)
    \/ handleEditTableEntries_StartConcurrent(r)
    \/ handleEditTableEntries_Select(r)
    \/ handleEditTableEntries_Update(r)

\* the two requests interleave at their awaits in any order
NextConcurrent == \E r \in Reqs : StepConcurrent(r)

SpecConcurrent == InitConcurrent /\ [][NextConcurrent]_vars

\* ------------------------------------------------------------------------
\* The Hono app: routes and the auth middleware in registration order
\* ------------------------------------------------------------------------

\* a path is the sequence of its segments; in a registered pattern ":"
\* stands for a named parameter and "*" for the rest of the path.  Of the
\* thirteen POST api/data/<table> routes the two for the tables of the
\* model are listed; app.use('*', cors()) always calls next().
Registered ==
    << [method |-> "GET",  path |-> <<"api", "raspi", ":">>,
        kind |-> "handlePiMacDataRetrieval"],
       [method |-> "GET",  path |-> <<"api", "raspi", "pairingStatus">>,
        kind |-> "handlePiPairingStatus"],
       [method |-> "POST", path |-> <<"api", "raspi", "sensorReadings">>,
        kind |-> "handlePiSensorDataPosting"],
       [method |-> "POST", path |-> <<"api", "auth", "pairDevice">>,
        kind |-> "pairDevice"],
       [method |-> "POST", path |-> <<"api", "auth", "login">>,
        kind |-> "login"],
       [method |-> "ALL",  path |-> <<"api", "*">>,
        kind |-> "requireFirebaseHeader"],
       [method |-> "POST", path |-> <<"api", "raspi", "sensorReadings">>,
        kind |-> "handlePiSensorDataPosting"],
       [method |-> "GET",  path |-> <<"api", "raspi", ":">>,
        kind |-> "handlePiMacDataRetrieval"],
       [method |-> "GET",  path |-> <<"api", "user", ":">>,
        kind |-> "handleReturnUserDataByTable"],
       [method |-> "POST", path |-> <<"api", "data", "user">>,
        kind |-> "handleAddTableEntry"],
       [method |-> "POST", path |-> <<"api", "data", "pings">>,
        kind |-> "handleAddTableEntry"],
       [method |-> "GET",  path |-> <<"api", "data", ":">>,
        kind |-> "handleGetTableEntries"] >>

\* the registered pattern matches the request path
PathMatches(pattern, path) ==
    IF pattern[Len(pattern)] = "*"
    THEN /\ Len(path) >= Len(pattern) - 1
         /\ \A i \in 1..(Len(pattern) - 1) : pattern[i] = path[i]
    ELSE /\ Len(path) = Len(pattern)
         /\ \A i \in 1..Len(pattern) :
               pattern[i] = ":" \/ pattern[i] = path[i]

\* the registered entries that match the request, in registration order
Matching(method, path) ==
    SelectSeq(Registered,
              LAMBDA e : /\ e.method \in {method, "ALL"}
                         /\ PathMatches(e.path, path))

\* the first matching entry that is a route handler: it answers the
\* request and never calls next()
FirstHandler(chain) ==
    CHOOSE i \in 1..Len(chain) :
        /\ chain[i].kind # "requireFirebaseHeader"
        /\ \A j \in 1..(i - 1) : chain[j].kind = "requireFirebaseHeader"

\* the auth middleware runs for the request: it matches and was registered
\* before the handler that answers
AuthRuns(chain) ==
    \E j \in 1..(FirstHandler(chain) - 1) :
        chain[j].kind = "requireFirebaseHeader"

\* Authorization header values: none, a non-Bearer scheme, Bearer tokens;
\* the value is kept split at the blank
Authorizations ==
    {<<>>, <<"Basic", "x">>, <<"Bearer", "bad">>, <<"Bearer", "t1">>,
     <<"Bearer", "t2">>}

\* the identity collaborator: the user of a valid token, null otherwise
getFirebaseUserInfo(token) ==
    IF token = "t1" THEN [uid |-> "u1"]
    ELSE IF token = "t2" THEN [uid |-> "u2"]
    ELSE [uid |-> Null]

\* requireFirebaseHeader: the decoded user, or the message of the Error
\* thrown
requireFirebaseHeader(authHeader) ==
    IF ~(Len(authHeader) >= 1 /\ authHeader[1] = "Bearer")
    THEN [ok |-> FALSE, uid |-> Undefined,
          message |-> "Missing or malformed Authorization header"]
    ELSE LET decoded == getFirebaseUserInfo(authHeader[2])
         IN IF decoded.uid = Null
            THEN [ok |-> FALSE, uid |-> Undefined,
                  message |-> "Invalid or expired Firebase token"]
            ELSE [ok |-> TRUE, uid |-> decoded.uid, message |-> ""]

\* the request as it reaches its handler: the middleware, when it runs,
\* has put the user id into the context
Arrived(method, path, authorization) ==
    LET chain == Matching(method, path)
        decoded == requireFirebaseHeader(authorization)
    IN [Idle EXCEPT !.method = method, !.path = path,
                    !.authorization = authorization,
                    !.handler = chain[FirstHandler(chain)].kind,
                    !.userId = IF AuthRuns(chain) /\ decoded.ok
                               THEN decoded.uid ELSE Undefined]

\* app.use('/api/*'): the middleware stops the request with a 401
Unauthorized(method, path, authorization) ==
    /\ AuthRuns(Matching(method, path))
    /\ ~requireFirebaseHeader(authorization).ok

UnauthorizedResponse(authorization) ==
    [status |-> 401, error |-> requireFirebaseHeader(authorization).message]

\* ------------------------------------------------------------------------
\* handleReturnUserDataByTable (GET api/user/:table)
\* ------------------------------------------------------------------------

\* the message of the TypeError thrown when a select is built from a value
\* that is no table
NotATableError == "TypeError: Cannot convert undefined or null to object"

\* the handler body, as the request record once the response is written
handleReturnUserDataByTable(q, tableName, outcome) ==
    LET userId == q.userId
        q1 == [q EXCEPT !.handler = "handleReturnUserDataByTable",
                        !.table = tableName, !.pc = "done"]
    IN IF Falsy(userId)
       THEN [q1 EXCEPT !.resp = [status |-> 400,
                                 error |-> "User not authenticated"]]
       ELSE IF Falsy(SchemaExport(tableName))
       THEN [q1 EXCEPT !.resp = [status |-> 400,
                                 error |-> <<"Unknown table: ", tableName>>]]
       ELSE IF SchemaExport(tableName) # "table"
       THEN [q1 EXCEPT !.resp = CatchResponse(q1.handler, NotATableError)]
       ELSE IF outcome # "ok"
       THEN [q1 EXCEPT !.reads = 1,
                       !.resp = CatchResponse(q1.handler, outcome)]
       ELSE LET rows ==
                    IF tableName = "user"
                    THEN SelectWhereEq(store[tableName], "id", userId)
                    ELSE IF HasUserId(tableName)
                    THEN SelectWhereEq(store[tableName], "userId", userId)
                    ELSE store[tableName]
            IN [q1 EXCEPT !.reads = 1,
                          !.resp = [status |-> 200, success |-> TRUE,
                                    table |-> tableName,
                                    count |-> Len(rows), data |-> rows]]

\* names a request can put in the :table segment of api/user/:table
UserRouteNames == AppTables \cup {"sensorsTypeEnum", "unknownTable"}

\* app.get('api/user/:table') behind the middleware
GetUserTableRoute(r) ==
    /\ req[r].pc = "idle"
    /\ \E tableName \in UserRouteNames :
       \E authorization \in Authorizations :
       \E outcome \in StatementOutcomes :
        LET method == "GET"
            path == <<"api", "user", tableName>>
            q == Arrived(method, path, authorization)
        IN req' = [req EXCEPT ![r] =
              IF Unauthorized(method, path, authorization)
              THEN [q EXCEPT !.pc = "done",
                             !.resp = UnauthorizedResponse(authorization)]
              ELSE handleReturnUserDataByTable(q, tableName, outcome)]
    /\ UNCHANGED store

\* ------------------------------------------------------------------------
\* handlePiSensorDataPosting (POST api/raspi/sensorReadings)
\* ------------------------------------------------------------------------

\* JSON values of a reading's `value` field
JsUndefined == [type |-> "undefined"]
JsNull == [type |-> "null"]
JsNumber(n) == [type |-> "number", n |-> n]

\* a test that also skips the reading 0
ValueTruthy(value) == value.type = "number" /\ value.n # 0

\* the reading is kept when not (value === undefined || value === null)
ValuePresent(value) == value.type \notin {"undefined", "null"}

\* value.toString() of the numbers the model sends
NumberToString(value) ==
    IF value.n = 0 THEN "0" ELSE IF value.n = 21 THEN "21" ELSE "NaN"

\* readings a Pi can send: with or without sensorUUID, for a sensor that
\* may exist (s1) and one that does not (s9), with the values undefined,
\* null, 0 and 21, with or without userID
Readings ==
    {reading \in [sensorUUID : {Undefined, "s1", "s9"},
                  value : {JsUndefined, JsNull, JsNumber(0), JsNumber(21)},
                  userID : {Undefined, "u1"}] :
        /\ reading.value = JsNumber(21) => reading.sensorUUID = "s1"
        /\ reading.userID = Undefined
              => reading.sensorUUID = "s1" /\ reading.value = JsNumber(0)}

\* request bodies: `readings` no array, or an array of readings
ReadingBodies ==
    {[isArray |-> FALSE, readings |-> <<>>]}
        \cup {[isArray |-> TRUE, readings |-> s] :
                s \in UNION {[1..n -> Readings] : n \in 0..MaxReadings}}

\* the reading passes `if(!sensorUUID || value === undefined || value ===
\* null) continue`, so its sensor is looked up
LookedUp(reading) ==
    ~Falsy(reading.sensorUUID) /\ ValuePresent(reading.value)

\* the for loop: the records pushed to `inserts`
RECURSIVE PrepareInserts(_, _)
PrepareInserts(readings, sensors) ==
    IF readings = <<>> THEN <<>>
    ELSE LET reading == Head(readings)
             rest == PrepareInserts(Tail(readings), sensors)
             sensorRecords ==
                 SelectWhereEq(sensors, "sensorId", reading.sensorUUID)
         IN IF ~LookedUp(reading) THEN rest
            ELSE IF sensorRecords = <<>> THEN rest
            ELSE <<[userId |-> IF Falsy(reading.userID) THEN Null
                               ELSE reading.userID,
                    sensorId |-> sensorRecords[1].sensorId,
                    confirmed |-> "yes",
                    time |-> Undefined,
                    value |-> NumberToString(reading.value)]>> \o rest

\* db.insert(schema.pings).values(inserts).run(): the rows stored
InsertedPings(inserts, ts) ==
    [i \in 1..Len(inserts) |-> Materialize("pings", inserts[i], Null, ts)]

\* the handler body: the body is checked, each reading kept is looked up
\* in sensors, and the records prepared go into pings in one INSERT; any
\* of the statements issued may be the one that throws
handlePiSensorDataPosting(r, q, body) ==
    \E ts \in Timestamps : \E outcome \in StatementOutcomes :
        LET readings == body.readings
            q1 == [q EXCEPT !.entries = readings, !.pc = "done"]
            lookups == Cardinality({i \in 1..Len(readings) :
                                        LookedUp(readings[i])})
            inserts == PrepareInserts(readings, store["sensors"])
            issued == lookups + (IF inserts = <<>> THEN 0 ELSE 1)
        IN IF ~body.isArray \/ readings = <<>>
           THEN /\ req' = [req EXCEPT ![r] = [q1 EXCEPT
                    !.resp = [status |-> 400, error |->
                      "Body must contain a non-empty 'readings' array"]]]
                /\ UNCHANGED store
           ELSE IF outcome # "ok" /\ issued > 0
           THEN /\ \E k \in 1..issued :
                    req' = [req EXCEPT ![r] = [q1 EXCEPT
                        !.reads = IF k <= lookups THEN k ELSE lookups,
                        !.writes = IF k <= lookups THEN 0 ELSE 1,
                        !.resp = CatchResponse(q1.handler, outcome)]]
                /\ UNCHANGED store
           ELSE IF inserts = <<>>
           THEN /\ req' = [req EXCEPT ![r] = [q1 EXCEPT
                    !.reads = lookups,
                    !.resp = [status |-> 400,
                              error |-> "No readings to insert"]]]
                /\ UNCHANGED store
           ELSE /\ Len(store["pings"]) + Len(inserts) <= MaxRows
                /\ store' = [store EXCEPT !["pings"] =
                                @ \o InsertedPings(inserts, ts)]
                /\ req' = [req EXCEPT ![r] = [q1 EXCEPT
                    !.reads = lookups, !.writes = 1,
                    !.resp = [status |-> 200, success |-> TRUE,
                              inserted |-> Len(inserts),
                              data |-> inserts]]]

\* app.post('api/raspi/sensorReadings')
PostSensorReadingsRoute(r) ==
    /\ req[r].pc = "idle"
    /\ \E body \in ReadingBodies :
       \E authorization \in {<<>>, <<"Bearer", "t1">>} :
        LET method == "POST"
            path == <<"api", "raspi", "sensorReadings">>
            q == Arrived(method, path, authorization)
        IN IF Unauthorized(method, path, authorization)
           THEN /\ req' = [req EXCEPT ![r] = [q EXCEPT !.pc = "done",
                        !.resp = UnauthorizedResponse(authorization)]]
                /\ UNCHANGED store
           ELSE handlePiSensorDataPosting(r, q, body)

\* ------------------------------------------------------------------------
\* The app serving its user and Raspberry Pi routes
\* ------------------------------------------------------------------------

\* the users, one Pi and possibly one sensor are there when the requests
\* arrive; a ping of the second user may be stored already
InitApp ==
    /\ store \in
         [user : {<<[id |-> "u1", createdAt |-> "t1", email |-> "e1",
                     firstName |-> "A", lastName |-> Null],
                    [id |-> "u2", createdAt |-> "t1", email |-> "e2",
                     firstName |-> "B", lastName |-> Null]>>},
          sensors : {<<>>,
                     <<[sensorId |-> "s1", userId |-> "u1",
                        type |-> "fan", zone |-> "z1"]>>},
          pings : {<<>>,
                   <<[userId |-> "u2", sensorId |-> Null,
                      confirmed |-> "yes", time |-> "t1",
                      value |-> "0"]>>},
          rasPi : {<<[id |-> "p1", receivedAt |-> "t1",
                      status |-> "unpaired"]>>}]
    /\ req = [r \in Reqs |-> Idle]

\* one step of the request in slot r
StepApp(r) ==
    \/ GetUserTableRoute(r)
    \/ PostSensorReadingsRoute(r)
    \/ Respond(r)

\* requests served one at a time
NextApp == StepApp(1)

SpecApp == InitApp /\ [][NextApp]_vars

\* ------------------------------------------------------------------------
\* handleDetermineUserDeviceHealth
\* ------------------------------------------------------------------------

\* stored timestamps, as the minute of the day they name
Minutes == {90, 110, 118}

\* new Date(text).getTime(): milliseconds
DateGetTime(minute) == minute * 60 * 1000

\* values of Date.now() when the request is served: minute 120
NowValues == {DateGetTime(120)}

\* Math.max of a non-empty set of numbers
Max(S) == CHOOSE x \in S : \A y \in S : y <= x

\* .where(eq(table.userId, userId)).orderBy(desc(column)).limit(1), then
\* readings[0]?.column ?? null turned into a number: the latest timestamp
\* of the user's rows in milliseconds, 0 without a row
LatestTime(rows, userId, column) ==
    LET mine == SelectWhereEq(rows, "userId", userId)
    IN IF mine = <<>> THEN 0
       ELSE DateGetTime(Max({mine[i][column] : i \in 1..Len(mine)}))

\* Date.now() - 5*60*1000
fiveMinutesAgo(now) == now - 5 * 60 * 1000

\* the message of the error a statement bound to `undefined` is rejected
\* with
UndefinedBindingError == "D1_TYPE_ERROR: Type 'undefined' not supported"

\* the handler: the uid of the bearer token, the user's row, then the
\* latest reading of the three logs compared with the current time
handleDetermineUserDeviceHealth(r) ==
    /\ req[r].pc = "idle"
    /\ \E authorization \in Authorizations : \E now \in NowValues :
       \E outcome \in StatementOutcomes \cup {UndefinedBindingError} :
        LET bearerToken == IF Len(authorization) >= 2
                           THEN authorization[2] ELSE Undefined
            firebaseUser == getFirebaseUserInfo(bearerToken)
            userId == IF firebaseUser.uid = Null THEN Undefined
                      ELSE firebaseUser.uid
            users == SelectWhereEq(store["user"], "id", userId)
            q == [Idle EXCEPT !.handler = "handleDetermineUserDeviceHealth",
                              !.authorization = authorization,
                              !.userId = userId, !.now = now,
                              !.pc = "done", !.reads = 1]
            timestamps ==
                {LatestTime(store["tempAndHumidity"], userId, "receivedAt"),
                 LatestTime(store["waterLog"], userId, "timeConfirmed"),
                 LatestTime(store["fanLog"], userId, "timeConfirmed")}
            latestTimestamp == Max(timestamps)
        IN /\ outcome = UndefinedBindingError => userId = Undefined
           /\ req' = [req EXCEPT ![r] =
                IF outcome # "ok"
                THEN [q EXCEPT !.resp = CatchResponse(q.handler, outcome)]
                ELSE IF Len(users) < 1
                THEN [q EXCEPT !.resp = [status |-> 500, error |->
                        <<"[handleDetermineUserDeviceHealth] Error: no user found with the uid: ",
                          userId>>]]
                ELSE IF Len(users) > 1
                THEN [q EXCEPT !.resp = [status |-> 500, error |->
                        <<"[handleDetermineUserDeviceHealth] Error: ",
                          Len(users), " found with the uid: ", userId>>]]
                ELSE IF users[1].raspiMac = ""
                THEN [q EXCEPT !.resp = [status |-> 404, error |->
                        <<"[handleDetermineUserDeviceHealth] Error: no raspi found for user: ",
                          userId>>]]
                ELSE [q EXCEPT !.reads = 4,
                        !.resp = [status |-> 200,
                            deviceActive |->
                                latestTimestamp > fiveMinutesAgo(now),
                            lastSeen |-> IF latestTimestamp > 0
                                         THEN [time |-> latestTimestamp]
                                         ELSE [time |-> "No data"]]]]
    /\ UNCHANGED store

\* the first user has paired a Pi, has none ("") or never set the column;
\* the logs hold readings of both users at different times
InitHealth ==
    /\ store \in
         [user : {<<[id |-> "u1", raspiMac |-> mac],
                    [id |-> "u2", raspiMac |-> "m2"]>> :
                        mac \in {"m1", "", Null}},
          tempAndHumidity :
              UNION {[1..n -> [userId : Ids, receivedAt : Minutes]] :
                     n \in 0..MaxRows},
          waterLog : {<<>>} \cup
              {<<[userId |-> "u1", timeConfirmed |-> t]>> : t \in Minutes},
          fanLog : {<<>>} \cup
              {<<[userId |-> "u1", timeConfirmed |-> t]>> : t \in Minutes}]
    /\ req = [r \in Reqs |-> Idle]

\* one step of the request in slot r
StepHealth(r) ==
    \/ handleDetermineUserDeviceHealth(r)
    \/ Respond(r)

NextHealth == StepHealth(1)

SpecHealth == InitHealth /\ [][NextHealth]_vars

\* ------------------------------------------------------------------------
\* normalizeMac: strings are sequences of one-character strings
\* ------------------------------------------------------------------------

\* the characters [0-9a-f]
HexDigits ==
    {"0", "1", "2", "3", "4", "5", "6", "7", "8", "9",
     "a", "b", "c", "d", "e", "f"}

\* toLowerCase() of one character
ToLowerCase(ch) ==
    CASE ch = "A" -> "a" [] ch = "B" -> "b" [] ch = "C" -> "c"
      [] ch = "D" -> "d" [] ch = "E" -> "e" [] ch = "F" -> "f"
      [] ch = "G" -> "g" [] ch = "Z" -> "z"
      [] OTHER -> ch

\* replace(/[^0-9a-f]/g, ''): every character that is no hex digit goes
StripNonHex(s) == SelectSeq(s, LAMBDA ch : ch \in HexDigits)

\* hex.match(/.{2}/g)!.join(":")
JoinPairs(hex) ==
    [i \in 1..(Len(hex) + (Len(hex) \div 2) - 1) |->
        IF i % 3 = 0 THEN ":" ELSE hex[2 * (i \div 3) + (i % 3)]]

\* a string value / null, as normalizeMac returns them
JsString(text) == [type |-> "string", text |-> text]

\* a normalizeMac that keeps the case of the input
normalizeMacKeepCase(raw) ==
    IF raw = <<>> THEN JsNull
    ELSE LET hex == SelectSeq(raw,
                        LAMBDA ch : ToLowerCase(ch) \in HexDigits)
         IN IF Len(hex) # 12 THEN JsNull ELSE JsString(JoinPairs(hex))

\* normalizeMac(raw): null for an empty input and for an input without
\* exactly 12 hex digits, else the digits in pairs joined by colons
normalizeMac(raw) ==
    IF raw = <<>> THEN JsNull
    ELSE LET hex == StripNonHex([i \in 1..Len(raw) |-> ToLowerCase(raw[i])])
         IN IF Len(hex) # 12 THEN JsNull ELSE JsString(JoinPairs(hex))

\* raw MAC addresses a client sends: upper case with colons, the same
\* device in lower case without separators, another device with dashes
\* and a leading non-hex character, too few digits, too many digits, the
\* empty string
RawMacs ==
    {<<"A", "A", ":", "B", "B", ":", "C", "C", ":", "D", "D", ":",
       "E", "E", ":", "0", "1">>,
     <<"a", "a", "b", "b", "c", "c", "d", "d", "e", "e", "0", "1">>,
     <<"Z", "A", "A", "-", "B", "B", "-", "C", "C", "-", "D", "D", "-",
       "E", "E", "-", "0", "2">>,
     <<"a", "a", ":", "b", "b">>,
     <<"a", "a", "b", "b", "c", "c", "d", "d", "e", "e", "0", "1", "0">>,
     <<>>}

\* ------------------------------------------------------------------------
\* handleLogin and handleRaspiPairing
\* ------------------------------------------------------------------------

\* decoded.email of the token's user
EmailOf(uid) == IF uid = "u1" THEN "e1" ELSE "e2"

\* a statement of the two handlers succeeds or is rejected
LoginOutcomes == {"ok", "D1_ERROR: database is locked"}

\* Authorization headers sent to the two routes
LoginAuthorizations == {<<>>, <<"Bearer", "t1">>, <<"Bearer", "t2">>}

\* JSON bodies of a login: the first name varies
LoginBodies ==
    {[firstName |-> n, lastName |-> Null, present |-> FALSE,
      raspiMac |-> <<>>] : n \in Names}

\* JSON bodies of a pairing: with a raspiMac, or without the key
PairBodies ==
    {[firstName |-> "A", lastName |-> Null, present |-> TRUE,
      raspiMac |-> raw] : raw \in RawMacs}
        \cup {[firstName |-> "A", lastName |-> Null, present |-> FALSE,
               raspiMac |-> <<>>]}

\* the row stored for newUser: location is undefined in the body and is
\* stored as NULL, profileImage is no column of the table
NewUser(uid, body, today) ==
    [id |-> uid, createdAt |-> today, location |-> Null,
     email |-> EmailOf(uid), firstName |-> body.firstName,
     lastName |-> body.lastName, raspiMac |-> <<>>]

\* a user table without its primary key
UserIdTakenNever(rows, id) == FALSE

\* id: text("id").primaryKey(): the store rejects a second row with the id
UserIdTaken(rows, id) == \E i \in 1..Len(rows) : rows[i].id = id

\* the catch block of handleLogin
LoginCatch(error) ==
    [status |-> 400, error |-> <<"Failed to handle login: ", error>>]

\* handleLogin has built its response: a login request answers with it, a
\* pairing (which awaits handleLogin(c) and drops its result) goes on
LoginReturn(q, resp) ==
    IF q.handler = "handleRaspiPairing"
    THEN [q EXCEPT !.pc = "pairUpdate"]
    ELSE [q EXCEPT !.pc = "done", !.resp = resp]

\* handleLogin, lines 38-42: the token is verified and the body parsed
handleLogin_Start(r) ==
    /\ req[r].pc = "idle"
    /\ \E authorization \in LoginAuthorizations : \E body \in LoginBodies :
        LET decoded == requireFirebaseHeader(authorization)
            q == [Idle EXCEPT !.handler = "handleLogin",
                              !.authorization = authorization,
                              !.entries = <<body>>]
        IN req' = [req EXCEPT ![r] =
                IF ~decoded.ok
                THEN [q EXCEPT !.pc = "done",
                               !.resp = LoginCatch(decoded.message)]
                ELSE [q EXCEPT !.pc = "loginSelect",
                               !.userId = decoded.uid]]
    /\ UNCHANGED store

\* lines 45-56: the lookup of the uid; an existing user is answered with
\* the stored record
handleLogin_Select(r) ==
    /\ req[r].pc = "loginSelect"
    /\ LET q == [req[r] EXCEPT !.reads = @ + 1]
           existingUsers == SelectWhereEq(store["user"], "id", q.userId)
       IN \E outcome \in LoginOutcomes :
            req' = [req EXCEPT ![r] =
                IF outcome # "ok"
                THEN LoginReturn(q, LoginCatch(outcome))
                ELSE IF Len(existingUsers) > 0
                THEN LoginReturn(q, [status |-> 400,
                                     resp |-> "User already created!",
                                     userRecord |-> existingUsers[1]])
                ELSE [q EXCEPT !.pc = "loginInsert"]]
    /\ UNCHANGED store

\* lines 59-71: the INSERT of newUser; the primary key rejects a second row
\* with the id
handleLogin_Insert(r) ==
    /\ req[r].pc = "loginInsert"
    /\ LET q == [req[r] EXCEPT !.writes = @ + 1]
       IN \E today \in Timestamps : \E outcome \in LoginOutcomes :
            LET newUser == NewUser(q.userId, q.entries[1], today)
                rows == store["user"]
            IN IF outcome # "ok"
               THEN /\ req' = [req EXCEPT ![r] =
                                LoginReturn(q, LoginCatch(outcome))]
                    /\ UNCHANGED store
               ELSE IF UserIdTaken(rows, newUser.id)
               THEN /\ req' = [req EXCEPT ![r] = LoginReturn(q,
                            LoginCatch("UNIQUE constraint failed: user.id"))]
                    /\ UNCHANGED store
               ELSE /\ store' = [store EXCEPT !["user"] =
                                    Append(@, newUser)]
                    /\ req' = [req EXCEPT ![r] =
                            [q EXCEPT !.pc = "loginReselect",
                                      !.found = <<newUser>>]]

\* lines 73-86: the row is read back and newUser is answered
handleLogin_Reselect(r) ==
    /\ req[r].pc = "loginReselect"
    /\ LET q == [req[r] EXCEPT !.reads = @ + 1]
           insertedUsers == SelectWhereEq(store["user"], "id", q.userId)
       IN \E outcome \in LoginOutcomes :
            req' = [req EXCEPT ![r] =
                IF outcome # "ok"
                THEN LoginReturn(q, LoginCatch(outcome))
                ELSE IF Len(insertedUsers) = 0
                THEN LoginReturn(q,
                        LoginCatch("User was not inserted correctly"))
                ELSE LoginReturn(q, [status |-> 200,
                                     message |-> "Login successful",
                                     user |-> q.found[1]])]
    /\ UNCHANGED store

\* .update(user).set({raspiMac}).where(eq(user.id, uid)): the rows after
SetRaspiMac(rows, uid, mac) ==
    [i \in 1..Len(rows) |->
        IF rows[i].id = uid THEN [rows[i] EXCEPT !.raspiMac = mac]
        ELSE rows[i]]

\* handleRaspiPairing, lines 46-64: token, body, normalizeMac, then
\* handleLogin(c) is entered
handleRaspiPairing_Start(r) ==
    /\ req[r].pc = "idle"
    /\ \E authorization \in LoginAuthorizations : \E body \in PairBodies :
        LET decoded == requireFirebaseHeader(authorization)
            rawMac == body.raspiMac
            normalizedMac == normalizeMac(rawMac)
            q == [Idle EXCEPT !.handler = "handleRaspiPairing",
                              !.authorization = authorization,
                              !.entries = <<body>>]
            answer(resp) == [q EXCEPT !.pc = "done", !.resp = resp]
        IN req' = [req EXCEPT ![r] =
                IF ~decoded.ok
                THEN answer(CatchResponse(q.handler, decoded.message))
                ELSE IF ~body.present
                THEN answer(CatchResponse(q.handler,
                        "Cannot read properties of undefined (reading 'toString')"))
                ELSE IF rawMac = <<>>
                THEN answer([status |-> 400,
                             error |-> "Missing raspiMac in request body"])
                ELSE IF normalizedMac = JsNull
                THEN answer(CatchResponse(q.handler,
                        "Invalid raspi_mac format. Expected 12 hex digits"))
                ELSE [q EXCEPT !.pc = "loginSelect",
                               !.userId = decoded.uid,
                               !.call = <<normalizedMac.text>>]]
    /\ UNCHANGED store

\* lines 67-71: the UPDATE of the user's raspiMac
handleRaspiPairing_Update(r) ==
    /\ req[r].pc = "pairUpdate"
    /\ LET q == [req[r] EXCEPT !.writes = @ + 1]
       IN \E outcome \in LoginOutcomes :
            IF outcome # "ok"
            THEN /\ req' = [req EXCEPT ![r] = [q EXCEPT !.pc = "done",
                            !.resp = CatchResponse(q.handler, outcome)]]
                 /\ UNCHANGED store
            ELSE /\ store' = [store EXCEPT !["user"] =
                                SetRaspiMac(@, q.userId, q.call[1])]
                 /\ req' = [req EXCEPT ![r] = [q EXCEPT !.pc = "pairSelect"]]

\* lines 74-85: the record is read back and answered
handleRaspiPairing_Select(r) ==
    /\ req[r].pc = "pairSelect"
    /\ LET q == [req[r] EXCEPT !.reads = @ + 1, !.pc = "done"]
           users == SelectWhereEq(store["user"], "id", q.userId)
       IN \E outcome \in LoginOutcomes :
            req' = [req EXCEPT ![r] =
                IF outcome # "ok"
                THEN [q EXCEPT !.resp = CatchResponse(q.handler, outcome)]
                ELSE IF Len(users) = 0
                THEN [q EXCEPT !.resp = CatchResponse(q.handler,
                        "Failed to fetch updated user record")]
                ELSE [q EXCEPT !.resp = [status |-> 200,
                                         user |-> users[1]]]]
    /\ UNCHANGED store

\* no user has logged in yet
InitLogin ==
    /\ store = [user |-> <<>>]
    /\ req = [r \in Reqs |-> Idle]

\* one step of the request in slot r
StepLogin(r) ==
    \/ handleLogin_Start(r)
    \/ handleLogin_Select(r)
    \/ handleLogin_Insert(r)
    \/ handleLogin_Reselect(r)
    \/ handleRaspiPairing_Start(r)
    \/ handleRaspiPairing_Update(r)
    \/ handleRaspiPairing_Select(r)
    \/ Respond(r)

\* login and pairing requests overlap
NextLogin == \E r \in Reqs : StepLogin(r)

SpecLogin == InitLogin /\ [][NextLogin]_vars

\* ------------------------------------------------------------------------
\* distributeUnsentEmails (the job the cron trigger runs)
\* ------------------------------------------------------------------------

\* the amount handed to returnTableEntries: alerts read by one run
BatchLimit == 50

\* the users alerts belong to
EmailUsers ==
    <<[id |-> "u1", email |-> "e1"], [id |-> "u2", email |-> "e2"]>>

\* rows of the alert table: id, user and status (message and severity only
\* travel into the mail)
AlertRow(id, userId, status) ==
    [id |-> id, userId |-> userId, status |-> status]

\* .set({ status: "handled" })
HandledEntry == [id |-> Undefined, userId |-> Undefined, status |-> "handled"]

\* outcomes of an awaited statement of the job: without faults every
\* statement succeeds
JobOutcomes(faults) == IF faults THEN StatementOutcomes ELSE {"ok"}

\* the status of the Response emailDistributionHandler.fetch returns: 200
\* when Resend accepted the mail, else Resend's status or 500; without
\* faults Resend accepts the address e1 and rejects the address e2
SendStatuses(recipient, faults) ==
    IF faults THEN {200, 422, 500}
    ELSE IF recipient = "e1" THEN {200} ELSE {422}

\* mails Resend has accepted so far, over all alerts
MailsSent ==
    LET RECURSIVE Sum(_)
        Sum(S) == IF S = {} THEN 0
                  ELSE LET x == CHOOSE y \in S : TRUE
                       IN store["outbox"][x] + Sum(S \ {x})
    IN Sum(DOMAIN store["outbox"])

\* the end of one iteration of the for loop, after the delay: the next
\* alert of the list read at the start, or the end of the run
NextAlert(q) ==
    IF q.i + 1 > Len(q.entries)
    THEN [q EXCEPT !.pc = "done", !.found = <<>>, !.call = <<>>]
    ELSE [q EXCEPT !.pc = "emailUser", !.i = @ + 1, !.found = <<>>,
                   !.call = <<>>]

\* a loop that marks the alert as handled before it looks at the status of
\* the send
MarkedAfterSendAlways(status) == TRUE

\* if(res.status === 200)
MarkedAfterSend(status) == status = 200

\* lines 12-23: the unhandled alerts are read, at most BatchLimit of them;
\* this statement is outside the try block
distributeUnsentEmails_Start(r, faults) ==
    /\ req[r].pc = "idle"
    /\ faults => MailsSent < MaxMails
    /\ \E outcome \in JobOutcomes(faults) :
        LET q == [Idle EXCEPT !.handler = "distributeUnsentEmails",
                              !.reads = 1]
            unhandledEmails ==
                returnTableEntries(store["alert"],
                                   [status |-> "unhandled"], BatchLimit)
        IN req' = [req EXCEPT ![r] =
                IF outcome # "ok"
                THEN [q EXCEPT !.pc = "done",
                               !.resp = [status |-> 0, rejected |-> outcome]]
                ELSE IF unhandledEmails = <<>>
                THEN [q EXCEPT !.pc = "done"]
                ELSE [q EXCEPT !.pc = "emailUser", !.i = 1,
                               !.entries = unhandledEmails]]
    /\ UNCHANGED store

\* lines 29-39: the alert's user is looked up; a rejected statement and a
\* user that is not found (alertUser.email of undefined) end in the catch
distributeUnsentEmails_User(r, faults) ==
    /\ req[r].pc = "emailUser"
    /\ LET q == [req[r] EXCEPT !.reads = @ + 1]
           alert == q.entries[q.i]
           alertUsers == SelectWhereEq(store["user"], "id", alert.userId)
       IN \E outcome \in JobOutcomes(faults) :
            req' = [req EXCEPT ![r] =
                IF outcome # "ok" \/ alertUsers = <<>>
                THEN NextAlert(q)
                ELSE [q EXCEPT !.pc = "emailSend", !.found = alertUsers]]
    /\ UNCHANGED store

\* lines 40-55 and 62-64: the mail is handed to Resend; res is kept in
\* q.call, sentCount in q.validCount
distributeUnsentEmails_Send(r, faults) ==
    /\ req[r].pc = "emailSend"
    /\ LET alert == req[r].entries[req[r].i]
           recipient == req[r].found[1].email
       IN \E status \in SendStatuses(recipient, faults) :
            LET q == [req[r] EXCEPT !.call = <<[status |-> status]>>]
            IN /\ store' = [store EXCEPT !["outbox"][alert.id] =
                                IF status = 200 THEN @ + 1 ELSE @]
               /\ req' = [req EXCEPT ![r] =
                        IF MarkedAfterSend(status)
                        THEN [q EXCEPT !.pc = "emailUpdate",
                                       !.validCount = @ + 1]
                        ELSE NextAlert(q)]

\* lines 53-61 and 65-71: the alert is marked as handled; a rejected
\* statement ends in the catch
distributeUnsentEmails_Update(r, faults) ==
    /\ req[r].pc = "emailUpdate"
    /\ LET q == [req[r] EXCEPT !.writes = @ + 1]
           alert == q.entries[q.i]
       IN \E outcome \in JobOutcomes(faults) :
            /\ store' = [store EXCEPT !["alert"] =
                            IF outcome # "ok" THEN @
                            ELSE UpdateWhereEq(@, "id", alert.id,
                                               HandledEntry)]
            /\ req' = [req EXCEPT ![r] = NextAlert(q)]

\* alert tables of up to MaxRows rows, the ids in store order
AlertTables ==
    UNION {{[i \in 1..n |-> AlertRow(i, users[i], statuses[i])] :
                users \in [1..n -> Ids],
                statuses \in [1..n -> {"unhandled", "handled"}]} :
           n \in 0..MaxRows}

\* the alert table when the trigger starts firing; store.outbox counts the
\* mails Resend has accepted for each alert
InitEmail ==
    /\ store \in [user : {EmailUsers}, alert : AlertTables,
                  outbox : {[i \in 1..(MaxRows + 1) |-> 0]}]
    /\ req = [r \in Reqs |-> Idle]

\* one step of the run in slot r
StepEmail(r, faults) ==
    \/ distributeUnsentEmails_Start(r, faults)
    \/ distributeUnsentEmails_User(r, faults)
    \/ distributeUnsentEmails_Send(r, faults)
    \/ distributeUnsentEmails_Update(r, faults)
    \/ Respond(r)

\* runs may overlap, statements and sends may fail
NextEmail == \E r \in Reqs : StepEmail(r, TRUE)

SpecEmail == InitEmail /\ [][NextEmail]_vars

\* BatchLimit alerts of the user whose address Resend rejects, followed by
\* an alert of the user whose mails are accepted
BacklogTable ==
    [i \in 1..(BatchLimit + 1) |->
        AlertRow(i, IF i <= BatchLimit THEN "u2" ELSE "u1", "unhandled")]

\* the tables of InitEmail that hold unhandled alerts only, and the backlog
InitEmailFair ==
    /\ \E alerts \in {t \in AlertTables :
                        \A i \in 1..Len(t) : t[i].status = "unhandled"}
                     \cup {BacklogTable} :
          store = [user |-> EmailUsers, alert |-> alerts,
                   outbox |-> [i \in 1..(BatchLimit + 1) |-> 0]]
    /\ req = [r \in Reqs |-> Idle]

\* one run after the other, no statement fails, a send fails only for the
\* address Resend rejects
NextEmailFair == StepEmail(1, FALSE)

\* the trigger keeps firing and a started run keeps going
SpecEmailFair == InitEmailFair /\ [][NextEmailFair]_vars /\ WF_vars(NextEmailFair)

\* ------------------------------------------------------------------------
\* The table-specific routes POST /api/data/<name>
\* ------------------------------------------------------------------------

\* the routes the model instantiates, of the thirteen
PostRouteNames == {"rasPi", "alert"}

\* the two revisions of the routes found in the sources
RouteRevisions == {"part_003", "raspiHandlers.ts"}

\* the table object each route hands to handleAddTableEntry
RouteTable(revision, name) ==
    IF name = "alert" /\ revision = "raspiHandlers.ts" THEN "rasPi"
    ELSE name

\* columns of the two tables
PostColumns(t) ==
    IF t = "rasPi" THEN {"id", "receivedAt", "status"}
    ELSE {"id", "userId", "message", "severity", "status"}

\* .notNull() columns without a default
PostNotNull(t) ==
    IF t = "rasPi" THEN {} ELSE {"userId", "message", "severity", "status"}

\* JSON bodies of the requests
PostBodies ==
    [userId : {Undefined, "u1"}, message : {"m"}, severity : {"low"},
     status : {Undefined, "online", "unhandled"}]

\* the entry each route builds from the body
RouteEntry(name, body) ==
    IF name = "rasPi" THEN [status |-> body.status]
    ELSE [userId |-> body.userId, message |-> body.message,
          severity |-> body.severity, status |-> body.status]

\* identifiers crypto.randomUUID() yields for the two tables
PostIds == {"r1", "r2", "r3"}

\* the row the INSERT stores: the fields of the entry that are columns of
\* the table, a default or NULL for the other columns
PostRow(t, entry, uuid, ts) ==
    [c \in PostColumns(t) |->
        IF c \in DOMAIN entry /\ entry[c] # Undefined THEN entry[c]
        ELSE IF c = "id" THEN uuid
        ELSE IF c = "receivedAt" THEN ts
        ELSE IF t = "rasPi" /\ c = "status" THEN "unpaired"
        ELSE Null]

\* one route: the entry is built and handleAddTableEntry inserts it
PostDataRoute(r) ==
    /\ req[r].pc = "idle"
    /\ \E revision \in RouteRevisions : \E name \in PostRouteNames :
       \E body \in PostBodies : \E uuid \in PostIds : \E ts \in Timestamps :
       \E outcome \in StatementOutcomes :
        LET t == RouteTable(revision, name)
            entry == RouteEntry(name, body)
            rows == store[t]
            row == PostRow(t, entry, uuid, ts)
            q == [Idle EXCEPT !.handler = "handleAddTableEntry",
                              !.method = "POST",
                              !.path = <<"api", "data", name>>,
                              !.call = <<revision>>, !.table = t,
                              !.entries = <<entry>>, !.i = 1,
                              !.pc = "done", !.writes = 1]
        IN /\ \A other \in PostRouteNames : Len(store[other]) < MaxRows
           /\ \A other \in PostRouteNames :
                \A i \in 1..Len(store[other]) : store[other][i].id # uuid
           /\ IF \/ outcome # "ok"
                 \/ \E c \in PostNotNull(t) : row[c] = Null
              THEN /\ req' = [req EXCEPT ![r] = [q EXCEPT
                            !.resp = CatchResponse(q.handler, outcome)]]
                   /\ UNCHANGED store
              ELSE /\ store' = [store EXCEPT ![t] = Append(@, row)]
                   /\ req' = [req EXCEPT ![r] = [q EXCEPT
                            !.found = <<row>>,
                            !.resp = [status |-> 200, success |-> TRUE,
                                      data |-> entry]]]

\* both tables are empty
InitPost ==
    /\ store = [t \in PostRouteNames |-> <<>>]
    /\ req = [r \in Reqs |-> Idle]

StepPost(r) ==
    \/ PostDataRoute(r)
    \/ Respond(r)

NextPost == StepPost(1)

SpecPost == InitPost /\ [][NextPost]_vars

\* ------------------------------------------------------------------------
\* An update by primary key overlapping a delete by id
\* ------------------------------------------------------------------------

\* a DELETE of a user row arrives before the other request is answered
handleDeleteUserDataByTable_StartConcurrent(r) ==
    /\ NoneAnswered
    /\ handleDeleteUserDataByTable_Start(r)

\* one step of the request in slot r: an update of one entry, an update of
\* a batch or a delete
StepEditDelete(r) ==
    \/ handleEditTableEntry_StartConcurrent(r)
    \/ handleEditTableEntry_Select(r)
    \/ handleEditTableEntry_Update(r)
    \/ handleEditTableEntries_StartConcurrent(r)
    \/ handleEditTableEntries_Select(r)
    \/ handleEditTableEntries_Update(r)
    \/ handleDeleteUserDataByTable_StartConcurrent(r)
    \/ handleDeleteUserDataByTable_Select(r)
    \/ handleDeleteUserDataByTable_Delete(r)

\* the two requests interleave at their awaits in any order
NextEditDelete == \E r \in Reqs : StepEditDelete(r)

SpecEditDelete == InitConcurrent /\ [][NextEditDelete]_vars

\* ------------------------------------------------------------------------
\* Properties
\* ------------------------------------------------------------------------

EditHandlers == {"handleEditTableEntry", "handleEditTableEntries"}

AddHandlers == {"handleAddTableEntry", "handleAddTableEntry<T>"}

\* the request in slot r takes the step that follows its lookup
AfterLookup(r) ==
    /\ req[r].pc = "update"
    /\ req[r].handler \in EditHandlers
    /\ req'[r] # req[r]

\* the entry the request in slot r is working on
CurrentEntry(q) == q.entries[IF q.handler = "handleEditTableEntries"
                             THEN q.i ELSE 1]

\* the step of slot r reports `reason` for the current entry: as the 400
\* response of handleEditTableEntry, or as the next item of invalidEntries
\* of handleEditTableEntries
Reports(r, single, batch) ==
    IF req[r].handler = "handleEditTableEntry"
    THEN /\ req'[r].pc = "done"
         /\ req'[r].resp = [status |-> 400, entry |-> CurrentEntry(req[r]),
                            reason |-> single]
    ELSE /\ Len(req'[r].invalidEntries) > Len(req[r].invalidEntries)
         /\ req'[r].invalidEntries[Len(req[r].invalidEntries) + 1]
                = [entry |-> CurrentEntry(req[r]), reason |-> batch]
         /\ req'[r].validCount = req[r].validCount

\* the set of rows of a table
RowSet(rows) == {rows[i] : i \in 1..Len(rows)}

\* C1: an update by primary key whose lookup matched zero rows reports
\* "no match" for the entry and leaves every table as it was
C1_NoMatchLeavesRows ==
    [][\A r \in Reqs :
          (AfterLookup(r) /\ Len(req[r].found) = 0)
              => /\ Reports(r, "no match", "no match")
                 /\ store' = store
                 /\ req'[r].writes = req[r].writes]_vars

\* C1 witness: an update of a non-empty table has been answered "no match"
C1_Witness ==
    \E r \in Reqs :
        /\ req[r].pc = "done"
        /\ req[r].handler = "handleEditTableEntry"
        /\ req[r].resp.status = 400
        /\ req[r].resp.reason = "no match"
        /\ Len(store[req[r].table]) > 0

\* C2: an UPDATE statement is issued only by a step whose lookup returned
\* exactly one row; when the lookup returned more than one row the entry is
\* reported as an ambiguous match and no table changes
C2_UpdateOnlyOnSingleMatch ==
    [][\A r \in Reqs :
          /\ (req[r].handler \in EditHandlers
                /\ req'[r].handler = req[r].handler
                /\ req'[r].writes > req[r].writes)
                => Len(req[r].found) = 1
          /\ (AfterLookup(r) /\ Len(req[r].found) > 1)
                => /\ Reports(r, ">1 match, ambiguous", "ambiguous match")
                   /\ store' = store
                   /\ req'[r].writes = req[r].writes]_vars

\* C2 witness: an update whose key matched two rows has been answered as
\* ambiguous, the two rows still in the table
C2_Witness ==
    \E r \in Reqs :
        /\ req[r].pc = "done"
        /\ req[r].handler = "handleEditTableEntry"
        /\ req[r].resp.status = 400
        /\ req[r].resp.reason = ">1 match, ambiguous"
        /\ Len(req[r].found) = 2
        /\ Len(store[req[r].table]) = 2

\* the stored rows the request's key matches
StoredMatches(q) ==
    SelectWhereEq(store[q.table], q.primaryKey,
                  CurrentEntry(q)[q.primaryKey])

\* C3 (as claimed): when an update by primary key matched exactly one row,
\* the stored row carries the entry's fields and the row returned to the
\* caller is the stored row, with the columns the entry did not contain
C3_ReturnsStoredRow ==
    \A r \in Reqs :
        (/\ req[r].pc = "done"
         /\ req[r].handler = "handleEditTableEntry"
         /\ req[r].resp.status = 200)
            => /\ Len(StoredMatches(req[r])) = 1
               /\ \A c \in Columns(req[r].table) :
                     req[r].entries[1][c] # Undefined
                        => StoredMatches(req[r])[1][c] = req[r].entries[1][c]
               /\ req[r].resp.data = StoredMatches(req[r])[1]

\* the entry field is absent or null
NoValue(v) == v \in {Undefined, Null}

\* the entries of the batch that carry no primary key
MissingKey(q) ==
    {k \in 1..Len(q.entries) : NoValue(q.entries[k][q.primaryKey])}

\* a batch of two entries that has returned its tally, one entry without
\* primary key and one whose key matches exactly one row of the table
OneValidOneMissing(q) ==
    /\ q.pc = "done"
    /\ q.handler = "handleEditTableEntries"
    /\ q.resp.status = 200
    /\ Len(q.entries) = 2
    /\ Cardinality(MissingKey(q)) = 1
    /\ \A k \in (1..2) \ MissingKey(q) :
          Len(SelectWhereEq(store[q.table], q.primaryKey,
                            q.entries[k][q.primaryKey])) = 1

\* C4: a batch of one valid entry and one entry without primary key, in
\* either order, ends with the valid entry's update applied, validCount = 1
\* and invalidEntries holding exactly the other entry with the reason
\* "missing primary key"
C4_BatchContinuesPastMissingKey ==
    \A r \in Reqs :
        OneValidOneMissing(req[r])
            => LET q == req[r]
                   bad == CHOOSE k \in MissingKey(q) : TRUE
                   good == 3 - bad
               IN /\ q.resp.validCount = 1
                  /\ q.resp.invalidCount = 1
                  /\ q.resp.invalidEntries
                        = <<[entry |-> q.entries[bad],
                             reason |-> "missing primary key"]>>
                  /\ q.reads = 1
                  /\ q.writes = 1
                  /\ \A row \in RowSet(SelectWhereEq(store[q.table],
                                  q.primaryKey, q.entries[good][q.primaryKey])) :
                        \A c \in Columns(q.table) :
                            q.entries[good][c] # Undefined
                                => row[c] = q.entries[good][c]

\* C4 witness: a batch whose first entry has no primary key and whose
\* second entry matched one row has returned its tally
C4_Witness ==
    \E r \in Reqs :
        /\ OneValidOneMissing(req[r])
        /\ MissingKey(req[r]) = {1}
        /\ req[r].resp.validCount = 1
        /\ Len(SelectWhereEq(store[req[r].table], req[r].primaryKey,
                             req[r].entries[2][req[r].primaryKey])) = 1

\* C5: an update or delete whose entry carries no primary-key value is
\* answered "missing primary key" (for the delete, that the id was not
\* passed) without a single statement issued for that entry
C5_MissingKeyRejectedBeforeStore ==
    \A r \in Reqs :
        LET q == req[r]
        IN /\ (q.handler \in {"handleEditTableEntry",
                              "handleDeleteUserDataByTable"}
                 /\ NoValue(q.entries[1][q.primaryKey]))
                 => /\ q.pc = "done"
                    /\ q.resp.status = 400
                    /\ q.reads = 0
                    /\ q.writes = 0
                    /\ IF q.handler = "handleEditTableEntry"
                       THEN q.resp.reason = "missing primary key"
                       ELSE q.resp.error = "id isn't passed in the request"
           /\ (q.handler = "handleEditTableEntries")
                 => /\ q.reads + q.writes
                          <= 2 * (Len(q.entries) - Cardinality(MissingKey(q)))
                    /\ \A k \in MissingKey(q) :
                          k < q.i =>
                            \E n \in 1..Len(q.invalidEntries) :
                                q.invalidEntries[n]
                                    = [entry |-> q.entries[k],
                                       reason |-> "missing primary key"]

\* C5 witness: an update with a null primary key and a populated table
C5_Witness ==
    \E r \in Reqs :
        /\ req[r].handler = "handleEditTableEntry"
        /\ req[r].entries[1][req[r].primaryKey] = Null
        /\ req[r].pc = "done"
        /\ Len(store[req[r].table]) > 0

\* the request in slot r takes the step that follows the delete's lookup
AfterDeleteLookup(r) ==
    /\ req[r].pc = "delete"
    /\ req[r].handler = "handleDeleteUserDataByTable"
    /\ req'[r] # req[r]

\* C6: the DELETE statement is issued only when the lookup returned exactly
\* one row; with zero or several rows the answer is an error and no table
\* changes; a DELETE that runs removes the row found and no other
C6_DeleteOnlySingleMatch ==
    [][\A r \in Reqs :
          AfterDeleteLookup(r) =>
            LET q == req[r]
            IN /\ req'[r].writes > q.writes => Len(q.found) = 1
               /\ Len(q.found) # 1
                    => /\ store' = store
                       /\ req'[r].resp.status = 400
               /\ store' # store
                    => /\ Len(q.found) = 1
                       /\ req'[r].resp.status = 200
                       /\ RowSet(store'[q.table])
                            = RowSet(store[q.table]) \ {q.found[1]}
                       /\ Len(store'[q.table]) = Len(store[q.table]) - 1
                       /\ \A t \in Tables \ {q.table} : store'[t] = store[t]
               /\ req'[r].resp.status = 200 => store' # store]_vars

\* C6 witness: a delete has removed one row of two
C6_Witness ==
    \E r \in Reqs :
        /\ req[r].pc = "done"
        /\ req[r].handler = "handleDeleteUserDataByTable"
        /\ req[r].resp.status = 200
        /\ Len(store[req[r].table]) = 1
        /\ req[r].found[1] \notin RowSet(store[req[r].table])

\* C7 (as claimed): a PUT whose entry lacks required fields is answered 400
\* with missingFields naming exactly the absent required fields, and issues
\* no statement
C7_IncompletePutIs400 ==
    \A r \in Reqs :
        (req[r].handler = "PUT")
            => /\ req[r].pc = "done"
               /\ req[r].resp.status = 400
               /\ req[r].resp.missingFields
                    = {f \in RequiredFields(req[r].table) :
                          req[r].entries[1][f] = Undefined}
               /\ req[r].reads = 0
               /\ req[r].writes = 0

\* both requests are updates by primary key of the same id that have run
\* their UPDATE and answered success, with different payloads
BothUpdated ==
    /\ \A r \in Reqs :
          /\ req[r].pc = "done"
          /\ req[r].handler \in EditHandlers
          /\ Len(req[r].entries) = 1
          /\ req[r].writes = 1
          /\ req[r].resp.status = 200
          /\ req[r].resp.success
          /\ req[r].handler = "handleEditTableEntries"
                => req[r].resp.validCount = 1
    /\ req[1].table = req[2].table
    /\ req[1].entries[1].id = req[2].entries[1].id
    /\ req[1].entries[1] # req[2].entries[1]

\* the stored row the two requests updated
FinalRow == SelectWhereEq(store["user"], "id", req[1].entries[1].id)[1]

\* the row holds a field of payload p that payload o does not carry
HoldsFieldOf(row, p, o) ==
    \E c \in DOMAIN row : p[c] # Undefined /\ row[c] = p[c] /\ o[c] # p[c]

\* C8 (as claimed): after two concurrent updates of the same id with
\* different payloads the stored row equals one of the two payloads and
\* never holds fields from both
C8_FinalRowIsOnePayload ==
    BothUpdated =>
        ~(/\ HoldsFieldOf(FinalRow, req[1].entries[1], req[2].entries[1])
          /\ HoldsFieldOf(FinalRow, req[2].entries[1], req[1].entries[1]))

\* the row is what writing payload p and then payload q leaves of base
WrittenInOrder(row, base, p, q) == row = Overwrite(Overwrite(base, p), q)

\* C8 (amended): after two concurrent updates of the same id with different
\* payloads, whatever the interleaving of their lookups and writes, the
\* stored row is the row the two whole UPDATEs leave when run one after the
\* other in some order: on every column that both payloads set it holds one
\* and the same payload's value (the one written last), a column only one
\* payload sets holds that payload's value, the other columns are untouched
C8_FinalRowIsLastWriteWins ==
    BothUpdated =>
        \E first \in Reqs : \E last \in Reqs \ {first} :
            /\ WrittenInOrder(FinalRow, req[first].found[1],
                              req[first].entries[1], req[last].entries[1])
            /\ \A c \in Columns("user") :
                  req[last].entries[1][c] # Undefined
                      => FinalRow[c] = req[last].entries[1][c]

\* C8 witness: the two updates set the same column to different values,
\* both looked the row up before either wrote, and both have written
C8_Witness ==
    /\ BothUpdated
    /\ req[1].found = req[2].found
    /\ req[1].entries[1].firstName = "A"
    /\ req[2].entries[1].firstName = "B"
    /\ req[1].found[1].firstName = Null

\* the condition { <primary key>: <the row's key> }
KeyCondition(t, row) ==
    [c \in Columns(t) |-> IF c \in PrimaryKeyOf(t) THEN row[c] ELSE Undefined]

C10_InsertReturnsStoredRow ==
    \A r \in Reqs :
        (/\ req[r].pc = "done"
         /\ req[r].handler \in AddHandlers
         /\ req[r].resp.status = 200)
            => /\ req[r].resp.data = req[r].found[1]
               /\ req[r].resp.data \in RowSet(store[req[r].table])
               /\ \A c \in UuidColumns(req[r].table)
                         \cup TimestampColumns(req[r].table) :
                     req[r].resp.data[c] # Undefined

\* the request is a generic GET of a table that has been answered 200
GetAnswered(q) ==
    /\ q.pc = "done"
    /\ q.handler = "handleGetTableEntries"
    /\ q.resp.status = 200

\* the smaller of two numbers
Min(a, b) == IF a <= b THEN a ELSE b

C12_ConditionIsConjunction ==
    \A r \in Reqs :
        (/\ GetAnswered(req[r])
         /\ Cardinality(ConditionKeys(req[r].call[1].condition)) >= 2)
            => LET condition == req[r].call[1].condition
                   data == req[r].resp.data
               IN \A i \in 1..Len(data) :
                    /\ data[i] \in RowSet(store[req[r].table])
                    /\ \A k \in ConditionKeys(condition) :
                          data[i][k] = condition[k]

\* C12 witness: a query on id and firstName has returned a row while the
\* table holds another row with that firstName and another id
C12_Witness ==
    \E r \in Reqs :
        /\ GetAnswered(req[r])
        /\ ConditionKeys(req[r].call[1].condition) = {"id", "firstName"}
        /\ Len(req[r].resp.data) = 1
        /\ \E row \in RowSet(store[req[r].table]) :
              /\ row.firstName = req[r].call[1].condition.firstName
              /\ row.id # req[r].call[1].condition.id

\* C13: the generic GET queries with limit 100 when the request carries no
\* limit parameter and with the caller's integer when it carries one; the
\* limit parameter is not a key of the condition, which holds every other
\* parameter unchanged
C13_LimitDefaultAndOverride ==
    \A r \in Reqs :
        (req[r].pc = "done" /\ req[r].handler = "handleGetTableEntries")
            => LET queryParams == req[r].entries[1]
                   condition == req[r].call[1].condition
                   amount == req[r].call[1].amount
               IN /\ queryParams.limit = Undefined => amount = 100
                  /\ queryParams.limit = "1" => amount = 1
                  /\ "limit" \notin ConditionKeys(condition)
                  /\ \A k \in DOMAIN queryParams \ {"limit"} :
                        condition[k] = queryParams[k]
                  /\ (req[r].table \in Tables
                        /\ queryParams[NoColumn] = Undefined)
                        => req[r].reads = 1

\* C13 witness: a GET with limit=1 and a filter that two rows satisfy has
\* returned one row
C13_Witness ==
    \E r \in Reqs :
        /\ GetAnswered(req[r])
        /\ req[r].table = "user"
        /\ req[r].entries[1].limit = "1"
        /\ req[r].entries[1].firstName = "A"
        /\ Len(req[r].resp.data) = 1
        /\ Len(store[req[r].table]) = 2
        /\ \A row \in RowSet(store[req[r].table]) : row.firstName = "A"

\* C14 (as claimed): a generic GET whose query parameters hold a key that
\* is no column of the table is answered with a client error (4xx) and no
\* statement is issued
C14_UnknownColumnIs4xx ==
    \A r \in Reqs :
        (/\ req[r].pc = "done"
         /\ req[r].handler = "handleGetTableEntries"
         /\ req[r].table \in Tables
         /\ req[r].entries[1][NoColumn] # Undefined)
            => /\ req[r].resp.status \in 400..499
               /\ req[r].reads = 0

\* C15 (as claimed): GET api/data/<name> for a name that is no declared
\* table is answered 404 {error: "Table <name> not found"} without store
\* access, also when the schema module exports the name
C15_NotATableIs404 ==
    \A r \in Reqs :
        (/\ req[r].pc = "done"
         /\ req[r].handler \in {"GET api/data/:table",
                                "handleGetTableEntries"}
         /\ req[r].table \notin Tables)
            => /\ req[r].resp = [status |-> 404,
                                 error |-> <<"Table ", req[r].table,
                                             " not found">>]
               /\ req[r].reads = 0


\* the handlers of the insert, query, update and delete operations
StoreHandlers ==
    EditHandlers \cup AddHandlers
        \cup {"handleGetTableEntries", "handleDeleteUserDataByTable"}

\* C17 (as claimed): when a store statement fails inside an insert, query,
\* update or delete handler, the answer is a status 500 whose body is the
\* same whatever the text of the internal error: the run in which the
\* statement fails with any other error text gets the same response
C17_Generic500Body ==
    \A r \in Reqs :
        (/\ req[r].pc = "done"
         /\ req[r].handler \in StoreHandlers
         /\ req[r].resp.status = 500)
            => \A error \in ErrorTexts :
                  req[r].resp = CatchResponse(req[r].handler, error)

\* C16 (as claimed): a request to a route under /api/ without an
\* Authorization: Bearer header, or with a token the identity collaborator
\* rejects, is answered 401 and its handler issues no statement
C16_UnauthenticatedIs401 ==
    \A r \in Reqs :
        (/\ req[r].pc = "done"
         /\ Len(req[r].path) >= 1
         /\ req[r].path[1] = "api"
         /\ req[r].authorization
                \notin {<<"Bearer", "t1">>, <<"Bearer", "t2">>})
            => /\ req[r].resp.status = 401
               /\ req[r].reads = 0
               /\ req[r].writes = 0

\* the reading carries a sensorUUID and a non-null value and its sensor is
\* a row of the sensors table
Qualifies(reading, sensors) ==
    /\ reading.sensorUUID \notin {Undefined, Null, ""}
    /\ reading.value.type = "number"
    /\ \E i \in 1..Len(sensors) : sensors[i].sensorId = reading.sensorUUID

\* the k-th smallest element of a set of indices
Kth(indices, k) ==
    CHOOSE i \in indices : Cardinality({j \in indices : j < i}) = k - 1

\* the text a ping holds for a reading's number
ValueText(value) == IF value.n = 0 THEN "0" ELSE "21"

\* C18: handlePiSensorDataPosting stores one ping for each reading that
\* carries a sensorUUID and a non-null value and whose sensor exists, and
\* for no other.  A rejected store statement ends the request with 500 and
\* no table changed.  Otherwise: when no reading qualifies the answer is
\* 400 and no table changes; when some do the answer is 200, `inserted` is
\* the number of qualifying readings and pings has grown by exactly their
\* pings, in order
C18_PingsForQualifyingReadings ==
    [][\A r \in Reqs :
          (/\ req[r].pc = "idle"
           /\ req'[r].pc = "done"
           /\ req'[r].handler = "handlePiSensorDataPosting")
              => LET readings == req'[r].entries
                     resp == req'[r].resp
                     qual == {i \in 1..Len(readings) :
                                Qualifies(readings[i], store["sensors"])}
                     n == Cardinality(qual)
                     old == Len(store["pings"])
                 IN /\ resp.status \in {200, 400, 500}
                    /\ resp.status = 500 => resp.error \in ErrorTexts
                    /\ resp.status # 200 => store' = store
                    /\ resp.status = 400 => qual = {}
                    /\ qual = {} => resp.status \in {400, 500}
                    /\ resp.status = 200
                         => /\ resp.inserted = n
                            /\ \A t \in AppTables \ {"pings"} :
                                  store'[t] = store[t]
                            /\ Len(store'["pings"]) = old + n
                            /\ SubSeq(store'["pings"], 1, old)
                                  = store["pings"]
                            /\ \A k \in 1..n :
                                 LET reading == readings[Kth(qual, k)]
                                     ping == store'["pings"][old + k]
                                 IN /\ ping.sensorId = reading.sensorUUID
                                    /\ ping.value = ValueText(reading.value)
                                    /\ ping.confirmed = "yes"
                                    /\ ping.time \in Timestamps
                                    /\ ping.userId =
                                         IF reading.userID = Undefined
                                         THEN Null ELSE reading.userID]_vars

\* C18 witness: of two readings, one without sensorUUID and one with the
\* value 0 for a known sensor, the second has been stored as a ping and
\* the count reported is 1
C18_Witness ==
    \E r \in Reqs :
        /\ req[r].pc = "done"
        /\ req[r].handler = "handlePiSensorDataPosting"
        /\ req[r].resp.status = 200
        /\ req[r].resp.inserted = 1
        /\ Len(req[r].entries) = 2
        /\ req[r].entries[1].sensorUUID = Undefined
        /\ req[r].entries[2].value = JsNumber(0)
        /\ store["pings"][Len(store["pings"])].value = "0"

\* C20 (as claimed): every row handleReturnUserDataByTable returns belongs
\* to the authenticated user: its id is the user id for table user, its
\* userId column is the user id for every other table
C20_OnlyOwnRows ==
    \A r \in Reqs :
        (/\ req[r].pc = "done"
         /\ req[r].handler = "handleReturnUserDataByTable"
         /\ req[r].resp.status = 200)
            => \A i \in 1..Len(req[r].resp.data) :
                 LET row == req[r].resp.data[i]
                 IN IF req[r].table = "user"
                    THEN row.id = req[r].userId
                    ELSE /\ "userId" \in DOMAIN row
                         /\ row.userId = req[r].userId

\* the timestamps, in milliseconds, of the rows the three logs hold for
\* the user
ReadingTimes(userId) ==
    {DateGetTime(store["tempAndHumidity"][i].receivedAt) :
        i \in {j \in 1..Len(store["tempAndHumidity"]) :
                  store["tempAndHumidity"][j].userId = userId}}
    \cup UNION {{DateGetTime(store[t][i].timeConfirmed) :
                    i \in {j \in 1..Len(store[t]) :
                              store[t][j].userId = userId}} :
                t \in {"waterLog", "fanLog"}}

\* C19: handleDetermineUserDeviceHealth answers deviceActive = true exactly
\* when the latest timestamp of the user's tempAndHumidity, waterLog and
\* fanLog rows lies within the twenty minutes before the current time, and
\* false otherwise, also when the user has no reading.
C19_ActiveWithin20Minutes ==
    \A r \in Reqs :
        (/\ req[r].pc = "done"
         /\ req[r].handler = "handleDetermineUserDeviceHealth"
         /\ req[r].resp.status = 200)
        => (req[r].resp.deviceActive
            <=> \E t \in ReadingTimes(req[r].userId) :
                    /\ t = Max(ReadingTimes(req[r].userId))
                    /\ t >= req[r].now - 20 * 60 * 1000
                    /\ t <= req[r].now)

\* a step of handleLogin in slot r, as a request of its own or entered
\* from a pairing
LoginStep(r) ==
    /\ req'[r] # req[r]
    /\ req'[r].handler \in {"handleLogin", "handleRaspiPairing"}
    /\ req[r].pc \in {"idle", "loginSelect", "loginInsert", "loginReselect"}

\* C21: whatever sequence of handleLogin calls is made, the user table
\* holds at most one row per id and no call changes a row that is already
\* stored, so the row of a uid stays the one the first call created; a
\* login whose lookup finds a row of the uid answers with that stored
\* record and leaves the table as it was.
C21_LoginKeepsFirstRow ==
    [][\A r \in Reqs : LoginStep(r) =>
        LET before == store["user"]
            after == store'["user"]
            mine == {i \in 1..Len(before) : before[i].id = req[r].userId}
        IN /\ Len(after) >= Len(before)
           /\ \A i \in 1..Len(before) : after[i] = before[i]
           /\ \A i, j \in 1..Len(after) :
                after[i].id = after[j].id => i = j
           /\ (/\ req[r].pc = "loginSelect"
               /\ req[r].handler = "handleLogin"
               /\ mine # {})
              => /\ after = before
                 /\ req'[r].pc = "done"
                 /\ \/ "error" \in DOMAIN req'[r].resp
                    \/ /\ "userRecord" \in DOMAIN req'[r].resp
                       /\ \E i \in mine :
                            req'[r].resp.userRecord = before[i]]_vars

\* a second login of u1, sent with another first name, was answered with
\* the row the first login stored
C21_Witness ==
    \E r \in Reqs :
        /\ req[r].pc = "done"
        /\ req[r].handler = "handleLogin"
        /\ "userRecord" \in DOMAIN req[r].resp
        /\ req[r].resp.userRecord.id = "u1"
        /\ req[r].resp.userRecord.firstName = "A"
        /\ req[r].entries[1].firstName = "B"
        /\ Len(store["user"]) = 1
        /\ store["user"][1] = req[r].resp.userRecord

\* a step of the loop of the run in slot r
RunStep(r) ==
    /\ req'[r] # req[r]
    /\ req[r].handler = "distributeUnsentEmails"
    /\ req[r].pc \in {"emailUser", "emailSend", "emailUpdate"}

\* the run in slot r has gone on to the alert after the current one, or
\* has ended after the last one
MovedOn(r) ==
    IF req[r].i = Len(req[r].entries)
    THEN req'[r].pc = "done"
    ELSE /\ req'[r].pc = "emailUser"
         /\ req'[r].i = req[r].i + 1
         /\ req'[r].entries = req[r].entries

\* C22: an alert's status becomes handled only in the step of a run whose
\* send for that alert returned status 200; a step of the loop that fails
\* (lookup rejected or without user, send with another status, rejected
\* write) leaves every alert's status as it was and the run goes on to the
\* next alert.
C22_HandledOnlyAfterSend ==
    [][/\ \A i \in 1..Len(store["alert"]) :
            (/\ store["alert"][i].status = "unhandled"
             /\ store'["alert"][i].status = "handled")
            => \E r \in Reqs :
                /\ RunStep(r)
                /\ req[r].pc = "emailUpdate"
                /\ req[r].entries[req[r].i].id = store["alert"][i].id
                /\ req[r].call = <<[status |-> 200]>>
       /\ \A r \in Reqs :
            (/\ RunStep(r)
             /\ \/ req[r].pc = "emailUser" /\ req'[r].pc # "emailSend"
                \/ /\ req[r].pc = "emailSend"
                   /\ req'[r].call # <<[status |-> 200]>>
                \/ /\ req[r].pc = "emailUpdate"
                   /\ store'["alert"] = store["alert"])
            => /\ store'["alert"] = store["alert"]
               /\ MovedOn(r)]_vars

\* a run over two alerts has ended: the first send failed and that alert
\* is still unhandled, the second was sent and is handled
C22_Witness ==
    \E r \in Reqs :
        /\ req[r].pc = "done"
        /\ req[r].handler = "distributeUnsentEmails"
        /\ Len(req[r].entries) = 2
        /\ req[r].validCount = 1
        /\ store["alert"][1].status = "unhandled"
        /\ store["alert"][2].status = "handled"
        /\ store["outbox"][1] = 0
        /\ store["outbox"][2] = 1

\* C27: over any number of runs, overlapping runs and runs whose write of
\* status handled is rejected included, Resend accepts at most one mail for
\* each alert.
C27_NoAlertEmailedTwice ==
    \A id \in DOMAIN store["outbox"] : store["outbox"][id] <= 1

\* the alert in row i is unhandled, its user exists and Resend accepts the
\* user's address
Deliverable(i) ==
    /\ i <= Len(store["alert"])
    /\ store["alert"][i].status = "unhandled"
    /\ \E u \in 1..Len(store["user"]) :
        /\ store["user"][u].id = store["alert"][i].userId
        /\ SendStatuses(store["user"][u].email, FALSE) = {200}

\* C28: under repeated runs, every unhandled alert whose user exists and
\* whose send succeeds is eventually marked handled, whatever other alerts
\* the table holds.
C28_EventuallyHandled ==
    \A i \in 1..(BatchLimit + 1) :
        Deliverable(i) ~> (/\ i <= Len(store["alert"])
                           /\ store["alert"][i].status = "handled")

\* C23: a successful POST /api/data/<name> adds exactly one row to the
\* table named <name> and leaves the rows of every other table as they
\* were.
C23_PostAddsOneRowToNamedTable ==
    [][\A r \in Reqs :
        (/\ req[r].pc = "idle"
         /\ req'[r].pc = "done"
         /\ req'[r].handler = "handleAddTableEntry"
         /\ req'[r].method = "POST"
         /\ req'[r].resp.status = 200)
        => LET name == req'[r].path[3]
           IN /\ Len(store'[name]) = Len(store[name]) + 1
              /\ \A i \in 1..Len(store[name]) :
                    store'[name][i] = store[name][i]
              /\ \A other \in PostRouteNames \ {name} :
                    store'[other] = store[other]]_vars

\* the hex digits of a raw MAC in order, in lower case
HexOf(raw) ==
    LET digits == SelectSeq(raw, LAMBDA ch :
                    ch \in HexDigits \cup {"A", "B", "C", "D", "E", "F"})
    IN [i \in 1..Len(digits) |-> ToLowerCase(digits[i])]

\* mac is six pairs of the digits of raw, in order, separated by colons
IsCanonicalOf(mac, raw) ==
    /\ Len(mac) = 17
    /\ Len(HexOf(raw)) = 12
    /\ \A i \in 1..17 :
        IF i % 3 = 0 THEN mac[i] = ":"
        ELSE mac[i] = HexOf(raw)[i - (i \div 3)]

\* C24: a pairing whose raw MAC does not hold exactly 12 hex digits is
\* answered with an error and creates or changes no user row; the write of
\* a pairing with an accepted MAC leaves the lower-case colon-separated
\* form of that MAC in the user's row and changes no other row.
C24_PairingNormalizesOrRejects ==
    [][\A r \in Reqs :
        /\ (/\ req[r].pc = "idle"
            /\ req'[r].handler = "handleRaspiPairing"
            /\ req'[r].entries[1].present
            /\ Len(HexOf(req'[r].entries[1].raspiMac)) # 12)
           => /\ req'[r].pc = "done"
              /\ "error" \in DOMAIN req'[r].resp
              /\ req'[r].resp.status >= 400
              /\ store' = store
        /\ (/\ req[r].pc = "pairUpdate"
            /\ req'[r].pc = "pairSelect")
           => /\ Len(store'["user"]) = Len(store["user"])
              /\ \A i \in 1..Len(store["user"]) :
                    IF store["user"][i].id = req[r].userId
                    THEN /\ IsCanonicalOf(store'["user"][i].raspiMac,
                                          req[r].entries[1].raspiMac)
                         /\ [store'["user"][i] EXCEPT !.raspiMac = <<>>]
                              = [store["user"][i] EXCEPT !.raspiMac = <<>>]
                    ELSE store'["user"][i] = store["user"][i]]_vars

\* one pairing sent AA:BB:CC:DD:EE:01 and was answered with the user's row
\* holding aa:bb:cc:dd:ee:01, another sent a MAC of four digits and was
\* answered with an error
C24_Witness ==
    \E r, s \in Reqs :
        /\ req[r].pc = "done"
        /\ req[r].handler = "handleRaspiPairing"
        /\ req[r].resp.status = 200
        /\ req[r].entries[1].raspiMac[1] = "A"
        /\ req[r].resp.user.raspiMac =
             <<"a", "a", ":", "b", "b", ":", "c", "c", ":", "d", "d", ":",
               "e", "e", ":", "0", "1">>
        /\ \E i \in 1..Len(store["user"]) :
             store["user"][i] = req[r].resp.user
        /\ req[s].pc = "done"
        /\ req[s].handler = "handleRaspiPairing"
        /\ req[s].entries[1].raspiMac = <<"a", "a", ":", "b", "b">>
        /\ req[s].resp.status = 500

\* C29: whatever login and pairDevice requests have run, no two user rows
\* hold the same non-empty raspiMac.
C29_OneUserPerMac ==
    \A i, j \in 1..Len(store["user"]) :
        (/\ store["user"][i].raspiMac # <<>>
         /\ store["user"][i].raspiMac = store["user"][j].raspiMac)
        => i = j

\* the request in slot r has returned the tally of a batch
TallyReturned(r) ==
    /\ req[r].pc = "done"
    /\ req[r].handler = "handleEditTableEntries"
    /\ req[r].resp.status = 200

\* C25: when handleEditTableEntries returns its tally, validCount plus
\* invalidCount is the number of entries passed, the invalid entries are
\* entries of the batch taken in order, each once, all others being the
\* valid ones, and validCount is the number of UPDATE statements issued.
C25_TallyCountsEveryEntryOnce ==
    \A r \in Reqs : TallyReturned(r) =>
        LET entries == req[r].entries
            resp == req[r].resp
            invalid == resp.invalidEntries
        IN /\ resp.validCount + resp.invalidCount = Len(entries)
           /\ resp.invalidCount = Len(invalid)
           /\ \E f \in [1..Len(invalid) -> 1..Len(entries)] :
                /\ \A k, l \in 1..Len(invalid) : k < l => f[k] < f[l]
                /\ \A k \in 1..Len(invalid) : invalid[k].entry = entries[f[k]]
           /\ resp.validCount = req[r].writes

\* a batch of two entries was answered with one valid entry, one invalid
\* entry and one UPDATE issued
C25_Witness ==
    \E r \in Reqs :
        /\ TallyReturned(r)
        /\ Len(req[r].entries) = 2
        /\ req[r].resp.validCount = 1
        /\ req[r].resp.invalidCount = 1
        /\ req[r].writes = 1

\* the step reports success for the current entry of the update in slot r
UpdateSucceeds(r) ==
    /\ req[r].pc = "update"
    /\ \/ /\ req[r].handler = "handleEditTableEntry"
          /\ req'[r].resp.status = 200
       \/ /\ req[r].handler = "handleEditTableEntries"
          /\ req'[r].validCount = req[r].validCount + 1

\* C26: when an update by primary key reports success for an entry, right
\* after the handler's write the table holds a row with that primary key
\* and the row holds the entry's field values, also when a delete of the
\* same id overlaps the update.
C26_SuccessMeansRowUpdated ==
    [][\A r \in Reqs : UpdateSucceeds(r) =>
        LET q == req[r]
            entry == q.entries[q.i]
            rows == store'[q.table]
        IN \E i \in 1..Len(rows) :
            /\ rows[i][q.primaryKey] = entry[q.primaryKey]
            /\ \A c \in DOMAIN entry :
                entry[c] # Undefined => rows[i][c] = entry[c]]_vars

====
